---------------------------- MODULE Spec2Model ----------------------------
(***************************************************************************)
(* A model of the resolution engine of the Solidity diagram extension:     *)
(* the call-graph builder, the type resolver, the state-variable resolver  *)
(* and the inheritance resolver, over a workspace index of parsed files.   *)
(*                                                                         *)
(* Source text is kept as text: a TLA+ string, read character by           *)
(* character, so that the regular expressions of the analyzers are         *)
(* evaluated on the characters the code would see.                         *)
(***************************************************************************)
EXTENDS Integers, Sequences, FiniteSets, TLC

VARIABLES
    workspaceFiles,     \* Map<string, ParsedFile>, in insertion order
    functionInfo,       \* the function under analysis
    innerCalls,         \* what buildCallGraph returned
    referencedTypes,    \* what resolveTypes returned
    contractMap,        \* InheritanceResolver.contractMap
    inheritedBy,        \* InheritanceResolver.inheritedBy
    inheritanceChains,  \* InheritanceResolver.inheritanceChains
    implementing,       \* outcome of the last getImplementingContracts
    implementations,    \* outcome of the last findImplementations
    lookups,            \* the point lookups made so far, oldest first
    ast,                \* the syntax tree handed to the ASTTraverser
    foundNodes,         \* what the last ASTTraverser query returned
    stateVariableNames, \* what extractStateVariableReferences returned
    displayedBlocks,    \* ImportManager.displayedBlocks
    pendingImports,     \* ImportManager.pendingImports, in insertion order
    arrows,             \* ArrowManager.arrows
    postedMessages,     \* vscode.postMessage: not yet handled by the extension
    importResponses     \* importResponse messages on their way to the webview

\* The state of the webview of the diagram.
webview == <<displayedBlocks, pendingImports, arrows, postedMessages,
             importResponses>>

vars == <<workspaceFiles, functionInfo, innerCalls, referencedTypes,
          contractMap, inheritedBy, inheritanceChains, implementing,
          implementations, lookups, ast, foundNodes, stateVariableNames,
          webview>>

-----------------------------------------------------------------------------
(* Characters and the character classes of the regular expressions.        *)

LowerChars == {"a","b","c","d","e","f","g","h","i","j","k","l","m",
               "n","o","p","q","r","s","t","u","v","w","x","y","z"}

UpperChars == {"A","B","C","D","E","F","G","H","I","J","K","L","M",
               "N","O","P","Q","R","S","T","U","V","W","X","Y","Z"}

DigitChars == {"0","1","2","3","4","5","6","7","8","9"}

\* \w
WordChars == LowerChars \cup UpperChars \cup DigitChars \cup {"_"}

\* \s
SpaceChars == {" ", "\t", "\n", "\r"}

\* [a-z_]
LowerStart == LowerChars \cup {"_"}

\* The character of s at position i (1-based), "" outside the string.
Char(s, i) == IF i >= 1 /\ i <= Len(s) THEN SubSeq(s, i, i) ELSE ""

\* First position at or after i whose character is not in class: the end of
\* a greedy class* that starts at i.
RECURSIVE RunEnd(_, _, _)
RunEnd(s, i, class) ==
    IF Char(s, i) \in class THEN RunEnd(s, i + 1, class) ELSE i

\* First position at or after i holding character c, Len(s)+1 if none: the
\* end of a greedy [^c]* that starts at i.
RECURSIVE RunEndNot(_, _, _)
RunEndNot(s, i, c) ==
    IF i > Len(s) \/ Char(s, i) = c THEN i ELSE RunEndNot(s, i + 1, c)

\* First position of the run of class characters that ends at position j
\* (j + 1 if the character at j is not in class).
RECURSIVE RunStart(_, _, _)
RunStart(s, j, class) ==
    IF Char(s, j) \in class THEN RunStart(s, j - 1, class) ELSE j + 1

\* s holds the text t at position i.
HasAt(s, i, t) ==
    i >= 1 /\ i + Len(t) - 1 <= Len(s) /\ SubSeq(s, i, i + Len(t) - 1) = t

\* String.prototype.includes
Includes(s, t) == \E i \in 1..(Len(s) + 1) : HasAt(s, i, t)

\* String.prototype.split on one separator character.
RECURSIVE Split(_, _)
Split(s, sep) ==
    LET p == RunEndNot(s, 1, sep) IN
    IF p > Len(s) THEN <<s>>
    ELSE <<SubSeq(s, 1, p - 1)>> \o Split(SubSeq(s, p + 1, Len(s)), sep)

\* The JavaScript null.
NULL == [null |-> TRUE]

-----------------------------------------------------------------------------
(* The data model: ParsedFile, ContractInfo, FunctionInfo, StructInfo,     *)
(* EnumInfo, StateVariableInfo.  A Map or Set of the code is a sequence    *)
(* here, in insertion order, which is the order JavaScript iterates it in. *)

FunctionRec(name, body, fullSource, parameters, returnParameters, line, path) ==
    [name |-> name, body |-> body, fullSource |-> fullSource,
     parameters |-> parameters, returnParameters |-> returnParameters,
     startLine |-> line, filePath |-> path]

ParameterRec(name, typeName, storageLocation) ==
    [name |-> name, typeName |-> typeName, storageLocation |-> storageLocation]

StructRec(name, contractName, line, path) ==
    [name |-> name, fullSource |-> "struct " \o name \o " { uint256 a; }",
     contractName |-> contractName, startLine |-> line, filePath |-> path]

EnumRec(name, contractName, line, path) ==
    [name |-> name, fullSource |-> "enum " \o name \o " { NO_YIELD, AAVE }",
     contractName |-> contractName, startLine |-> line, filePath |-> path]

StateVariableRec(name, typeName, contractName, line, path) ==
    [name |-> name, typeName |-> typeName, contractName |-> contractName,
     startLine |-> line, filePath |-> path]

ContractRec(name, kind, baseContracts, functions, structs, enums, stateVariables, path) ==
    [name |-> name, kind |-> kind, baseContracts |-> baseContracts,
     functions |-> functions, structs |-> structs, enums |-> enums,
     stateVariables |-> stateVariables, filePath |-> path]

ParsedFileRec(path, contracts) == [filePath |-> path, contracts |-> contracts]

\* The concatenation of a sequence of sequences.
RECURSIVE Flatten(_)
Flatten(ss) == IF ss = <<>> THEN <<>> ELSE Head(ss) \o Flatten(Tail(ss))

\* The set of the elements of a sequence.
Range(s) == {s[i] : i \in 1..Len(s)}

\* The files of the index whose path is path (one, or none).
FileAt(files, path) == SelectSeq(files, LAMBDA f : f.filePath = path)

-----------------------------------------------------------------------------
(* CallGraphBuilder                                                        *)

BUILTINS ==
    {"require", "assert", "revert", "keccak256", "sha256", "sha3",
     "ripemd160", "ecrecover", "addmod", "mulmod", "selfdestruct",
     "blockhash", "gasleft", "type", "abi", "push", "pop", "transfer",
     "send", "call", "delegatecall", "staticcall", "encode",
     "encodePacked", "encodeWithSelector", "encodeWithSignature", "decode",
     "length", "balance", "code", "codehash", "safeApprove",
     "safeTransfer", "safeTransferFrom", "approve", "transferFrom",
     "allowance", "balanceOf", "totalSupply", "mint", "burn", "deposit",
     "withdraw", "borrow", "repay", "supply", "claim", "stake", "unstake"}

TYPE_CASTS ==
    {"address", "bool", "string", "bytes", "uint", "int", "uint8",
     "uint16", "uint24", "uint32", "uint40", "uint48", "uint56", "uint64",
     "uint72", "uint80", "uint88", "uint96", "uint104", "uint112",
     "uint120", "uint128", "uint136", "uint144", "uint152", "uint160",
     "uint168", "uint176", "uint184", "uint192", "uint200", "uint208",
     "uint216", "uint224", "uint232", "uint240", "uint248", "uint256",
     "int8", "int16", "int24", "int32", "int40", "int48", "int56", "int64",
     "int72", "int80", "int88", "int96", "int104", "int112", "int120",
     "int128", "int136", "int144", "int152", "int160", "int168", "int176",
     "int184", "int192", "int200", "int208", "int216", "int224", "int232",
     "int240", "int248", "int256", "bytes1", "bytes2", "bytes3", "bytes4",
     "bytes5", "bytes6", "bytes7", "bytes8", "bytes9", "bytes10",
     "bytes11", "bytes12", "bytes13", "bytes14", "bytes15", "bytes16",
     "bytes17", "bytes18", "bytes19", "bytes20", "bytes21", "bytes22",
     "bytes23", "bytes24", "bytes25", "bytes26", "bytes27", "bytes28",
     "bytes29", "bytes30", "bytes31", "bytes32"}

KEYWORDS ==
    {"if", "else", "for", "while", "do", "return", "emit", "new", "delete",
     "try", "catch", "break", "continue"}

\* The match of  name \s* \(  whose name starts at nameStart and whose whole
\* match starts at matchStart; index is the 0-based match.index.
CallMatch(line, nameStart, matchStart, prefix) ==
    LET e == RunEnd(line, nameStart, WordChars)
        p == RunEnd(line, e, SpaceChars)
        name == SubSeq(line, nameStart, e - 1)
    IN  [name |-> name, expression |-> prefix \o name,
         index |-> matchStart - 1, length |-> p - matchStart + 1]

\* directCallPattern = /(?<![.\w])([a-z_][a-zA-Z0-9_]*)\s*\(/g matches at i.
DirectCallAt(line, i) ==
    /\ Char(line, i - 1) \notin (WordChars \cup {"."})
    /\ Char(line, i) \in LowerStart
    /\ Char(line, RunEnd(line, RunEnd(line, i, WordChars), SpaceChars)) = "("

\* thisCallPattern = /this\.([a-z_][a-zA-Z0-9_]*)\s*\(/g matches at i.
ThisCallAt(line, i) ==
    /\ HasAt(line, i, "this.")
    /\ Char(line, i + 5) \in LowerStart
    /\ Char(line, RunEnd(line, RunEnd(line, i + 5, WordChars), SpaceChars)) = "("

\* internalCallPattern = /(?<![.\w])(_[a-zA-Z0-9_]+)\s*\(/g matches at i.
InternalCallAt(line, i) ==
    /\ Char(line, i - 1) \notin (WordChars \cup {"."})
    /\ Char(line, i) = "_"
    /\ Char(line, i + 1) \in WordChars
    /\ Char(line, RunEnd(line, RunEnd(line, i, WordChars), SpaceChars)) = "("

\* The matches of the three patterns on a line, in the order the three
\* exec loops of extractFunctionCalls produce them.
directCalls(line) ==
    LET at == SelectSeq([i \in 1..Len(line) |-> i], LAMBDA i : DirectCallAt(line, i))
    IN  [k \in 1..Len(at) |-> CallMatch(line, at[k], at[k], "")]

thisCalls(line) ==
    LET at == SelectSeq([i \in 1..Len(line) |-> i], LAMBDA i : ThisCallAt(line, i))
    IN  [k \in 1..Len(at) |-> CallMatch(line, at[k] + 5, at[k], "this.")]

internalCalls(line) ==
    LET at == SelectSeq([i \in 1..Len(line) |-> i], LAMBDA i : InternalCallAt(line, i))
    IN  [k \in 1..Len(at) |-> CallMatch(line, at[k], at[k], "")]

\* /^I[A-Z]/.test(name) && new RegExp(`${name}\\s*\\([^)]+\\)`).test(line)
isInterfaceCall(name, line) ==
    /\ Char(name, 1) = "I" /\ Char(name, 2) \in UpperChars
    /\ \E i \in 1..Len(line) :
          /\ HasAt(line, i, name)
          /\ LET p == RunEnd(line, i + Len(name), SpaceChars)
                 q == RunEndNot(line, p + 1, ")")
             IN  Char(line, p) = "(" /\ q > p + 1 /\ Char(line, q) = ")"

\* `.name \s* \(` stands in the line with its dot at position j.
MethodAt(line, j, name) ==
    /\ Char(line, j) = "."
    /\ HasAt(line, j + 1, name)
    /\ Char(line, RunEnd(line, j + 1 + Len(name), SpaceChars)) = "("

\* new RegExp(`I[A-Z][a-zA-Z0-9_]*\\([^)]*\\)\\.${name}\\s*\\(`).test(line)
interfaceMethodPattern(name, line) ==
    \E i \in 1..Len(line) :
        /\ Char(line, i) = "I" /\ Char(line, i + 1) \in UpperChars
        /\ LET e == RunEnd(line, i + 2, WordChars)
               q == RunEndNot(line, e + 1, ")")
           IN  Char(line, e) = "(" /\ Char(line, q) = ")"
               /\ MethodAt(line, q + 1, name)

\* new RegExp(`\\w+\\.${name}\\s*\\(`).test(line)
externalCallPattern(name, line) ==
    \E j \in 1..Len(line) :
        Char(line, j - 1) \in WordChars /\ MethodAt(line, j, name)

\* new RegExp(`([a-z_][a-zA-Z0-9_]*)\\.${name}\\s*\\(`).test(line)
varMethodPattern(name, line) ==
    \E j \in 1..Len(line) :
        /\ MethodAt(line, j, name)
        /\ \E k \in 1..(j - 1) :
              Char(line, k) \in LowerStart /\ RunEnd(line, k, WordChars) = j

shouldSkipCall(name, expression, line) ==
    \/ name \in BUILTINS
    \/ name \in KEYWORDS
    \/ name \in TYPE_CASTS
    \/ isInterfaceCall(name, line)
    \/ interfaceMethodPattern(name, line)
    \/ /\ externalCallPattern(name, line)
       /\ ~Includes(line, "this." \o name)
       /\ varMethodPattern(name, line)

\* One turn of an exec loop that does not look at seenCalls.
addCallUnseen(acc, m, lineNum, line) ==
    IF shouldSkipCall(m.name, m.expression, line) THEN acc
    ELSE [seenCalls |-> acc.seenCalls,
          calls |-> Append(acc.calls,
              [name |-> m.name, expression |-> m.expression,
               line |-> lineNum, startColumn |-> m.index,
               endColumn |-> m.index + m.length,
               resolvedFunction |-> NULL])]

\* One turn of an exec loop: acc is <<calls, seenCalls>> so far.  The key
\* `${lineNum}:${expression}` is the pair (lineNum, expression).
addCall(acc, m, lineNum, line) ==
    IF <<lineNum, m.expression>> \in acc.seenCalls THEN acc
    ELSE IF shouldSkipCall(m.name, m.expression, line) THEN acc
    ELSE [seenCalls |-> acc.seenCalls \cup {<<lineNum, m.expression>>},
          calls |-> Append(acc.calls,
              [name |-> m.name, expression |-> m.expression,
               line |-> lineNum, startColumn |-> m.index,
               endColumn |-> m.index + m.length,
               resolvedFunction |-> NULL])]

RECURSIVE addCalls(_, _, _, _)
addCalls(acc, ms, lineNum, line) ==
    IF ms = <<>> THEN acc
    ELSE addCalls(addCall(acc, Head(ms), lineNum, line), Tail(ms), lineNum, line)

RECURSIVE scanLines(_, _, _, _)
scanLines(acc, lines, lineIdx, startLine) ==
    IF lineIdx > Len(lines) THEN acc
    ELSE LET line == lines[lineIdx]
             ms == directCalls(line) \o thisCalls(line) \o internalCalls(line)
         IN  scanLines(addCalls(acc, ms, startLine + lineIdx - 1, line),
                       lines, lineIdx + 1, startLine)

extractFunctionCalls(fi) ==
    scanLines([seenCalls |-> {}, calls |-> <<>>],
              Split(fi.fullSource, "\n"), 1, fi.startLine).calls

\* The first function called functionName among funcs, or null.
FirstFunctionNamed(funcs, functionName) ==
    LET hits == SelectSeq(funcs, LAMBDA f : f.name = functionName)
    IN  IF hits = <<>> THEN NULL ELSE Head(hits)

\* The functions of a file's contracts, in contract order then function order.
FunctionsOfFile(file) ==
    Flatten([c \in 1..Len(file.contracts) |-> file.contracts[c].functions])

\* findFunctionDefinition without the search of the current file first.
findFunctionDefinitionInOrder(name, expression, currentFile, files) ==
    LET parts == Split(expression, ".")
        all == Flatten([k \in 1..Len(files) |-> FunctionsOfFile(files[k])])
    IN  FirstFunctionNamed(all, parts[Len(parts)])

findFunctionDefinition(name, expression, currentFile, files) ==
    LET parts == Split(expression, ".")
        functionName == parts[Len(parts)]
        local == FirstFunctionNamed(FunctionsOfFile(currentFile), functionName)
        others == SelectSeq(files, LAMBDA f : f.filePath # currentFile.filePath)
        rest == Flatten([k \in 1..Len(others) |-> FunctionsOfFile(others[k])])
    IN  IF local # NULL THEN local ELSE FirstFunctionNamed(rest, functionName)

resolveFunctionCall(call, currentFile, files) ==
    [call EXCEPT !.resolvedFunction =
        findFunctionDefinition(call.name, call.expression, currentFile, files)]

\* buildCallGraph without its self-reference check.
buildCallGraphKeepSelf(fi, currentFile, files) ==
    LET calls == extractFunctionCalls(fi)
        resolved == [k \in 1..Len(calls) |-> resolveFunctionCall(calls[k], currentFile, files)]
    IN  SelectSeq(resolved, LAMBDA c : c.resolvedFunction # NULL)

buildCallGraph(fi, currentFile, files) ==
    LET calls == extractFunctionCalls(fi)
        kept == SelectSeq(calls, LAMBDA c : c.name # fi.name)
        resolved == [k \in 1..Len(kept) |-> resolveFunctionCall(kept[k], currentFile, files)]
    IN  SelectSeq(resolved, LAMBDA c : c.resolvedFunction # NULL)

\* resolveSingleFunction that finds nothing once the call graph of the
\* analysed function has been built.
resolveSingleFunctionUntilAnalysed(functionName, files) ==
    LET parts == Split(functionName, ".")
        all == Flatten([k \in 1..Len(files) |-> FunctionsOfFile(files[k])])
    IN  IF innerCalls.state = "returned" THEN NULL
        ELSE FirstFunctionNamed(all, parts[Len(parts)])

resolveSingleFunction(functionName, files) ==
    LET parts == Split(functionName, ".")
        localName == parts[Len(parts)]
        all == Flatten([k \in 1..Len(files) |-> FunctionsOfFile(files[k])])
    IN  FirstFunctionNamed(all, localName)

functionExists(functionName, files) ==
    resolveSingleFunction(functionName, files) # NULL

-----------------------------------------------------------------------------
(* StateVariableResolver                                                   *)

\* The first state variable called name among the contracts, or null.
FirstStateVariableNamed(contracts, name) ==
    LET hits == SelectSeq(
                    Flatten([c \in 1..Len(contracts) |-> contracts[c].stateVariables]),
                    LAMBDA sv : sv.name = name)
    IN  IF hits = <<>> THEN NULL ELSE Head(hits)

\* resolveStateVariable without the search of the contract named first.
resolveStateVariableUnhinted(name, currentContractName, files) ==
    FirstStateVariableNamed(Flatten([f \in 1..Len(files) |-> files[f].contracts]),
                            name)

\* The contracts of all files, in file order; a null currentContractName
\* is the empty string, which the code's test treats alike.
resolveStateVariable(name, currentContractName, files) ==
    LET contracts == Flatten([f \in 1..Len(files) |-> files[f].contracts])
        own == FirstStateVariableNamed(
                   SelectSeq(contracts, LAMBDA c : c.name = currentContractName),
                   name)
    IN  IF currentContractName # "" /\ own # NULL THEN own
        ELSE FirstStateVariableNamed(contracts, name)

stateVariableExists(name, files) == resolveStateVariable(name, "", files) # NULL

-----------------------------------------------------------------------------
(* TypeResolver                                                            *)

ELEMENTARY_TYPES ==
    {"address", "bool", "string", "bytes", "uint", "int", "uint8",
     "uint16", "uint24", "uint32", "uint40", "uint48", "uint56", "uint64",
     "uint72", "uint80", "uint88", "uint96", "uint104", "uint112",
     "uint120", "uint128", "uint136", "uint144", "uint152", "uint160",
     "uint168", "uint176", "uint184", "uint192", "uint200", "uint208",
     "uint216", "uint224", "uint232", "uint240", "uint248", "uint256",
     "int8", "int16", "int24", "int32", "int40", "int48", "int56", "int64",
     "int72", "int80", "int88", "int96", "int104", "int112", "int120",
     "int128", "int136", "int144", "int152", "int160", "int168", "int176",
     "int184", "int192", "int200", "int208", "int216", "int224", "int232",
     "int240", "int248", "int256", "bytes1", "bytes2", "bytes3", "bytes4",
     "bytes5", "bytes6", "bytes7", "bytes8", "bytes9", "bytes10",
     "bytes11", "bytes12", "bytes13", "bytes14", "bytes15", "bytes16",
     "bytes17", "bytes18", "bytes19", "bytes20", "bytes21", "bytes22",
     "bytes23", "bytes24", "bytes25", "bytes26", "bytes27", "bytes28",
     "bytes29", "bytes30", "bytes31", "bytes32", "function", "unknown",
     "void", "var"}

SKIP_NAMES ==
    {"require", "assert", "revert", "keccak256", "sha256", "sha3",
     "ripemd160", "ecrecover", "addmod", "mulmod", "selfdestruct",
     "blockhash", "gasleft", "Error", "Panic", "abi", "block", "msg", "tx",
     "this", "super", "type", "true", "false", "if", "else", "for",
     "while", "do", "return", "emit", "new", "delete", "memory", "storage",
     "calldata", "public", "private", "internal", "external", "pure",
     "view", "payable", "constant", "immutable", "virtual", "override"}

LowerAlphabet == "abcdefghijklmnopqrstuvwxyz"

UpperAlphabet == "ABCDEFGHIJKLMNOPQRSTUVWXYZ"

\* The lower-case letter of each capital, and the capital of each
\* lower-case letter.
LowerOf ==
    [c \in UpperChars |->
        Char(LowerAlphabet, CHOOSE i \in 1..26 : Char(UpperAlphabet, i) = c)]

UpperOf ==
    [c \in LowerChars |->
        Char(UpperAlphabet, CHOOSE i \in 1..26 : Char(LowerAlphabet, i) = c)]

\* String.prototype.toLowerCase and toUpperCase, on ASCII text.
RECURSIVE toLowerCase(_)
toLowerCase(s) ==
    IF s = "" THEN ""
    ELSE LET c == Char(s, 1)
         IN  (IF c \in UpperChars THEN LowerOf[c] ELSE c)
                 \o toLowerCase(SubSeq(s, 2, Len(s)))

RECURSIVE toUpperCase(_)
toUpperCase(s) ==
    IF s = "" THEN ""
    ELSE LET c == Char(s, 1)
         IN  (IF c \in LowerChars THEN UpperOf[c] ELSE c)
                 \o toUpperCase(SubSeq(s, 2, Len(s)))

\* String.prototype.trim
trim(s) ==
    LET a == RunEnd(s, 1, SpaceChars)
        b == RunStart(s, Len(s), SpaceChars) - 1
    IN  IF a > b THEN "" ELSE SubSeq(s, a, b)

\* Set.prototype.add on a Set kept in insertion order.
SetAdd(set, x) == IF x \in Range(set) THEN set ELSE Append(set, x)

\* typeName.split('.').pop() || typeName
LastPart(typeName) ==
    LET parts == Split(typeName, ".")
    IN  IF parts[Len(parts)] = "" THEN typeName ELSE parts[Len(parts)]

\* Last position of character c in s, 0 if none.
RECURSIVE LastIndexOf(_, _, _)
LastIndexOf(s, c, i) ==
    IF i = 0 \/ Char(s, i) = c THEN i ELSE LastIndexOf(s, c, i - 1)

\* First position at or after i where the text t stands, 0 if none.
RECURSIVE IndexOf(_, _, _)
IndexOf(s, t, i) ==
    IF i + Len(t) - 1 > Len(s) THEN 0
    ELSE IF HasAt(s, i, t) THEN i ELSE IndexOf(s, t, i + 1)

NoMatch == [ok |-> FALSE, end |-> 0, name |-> "", second |-> ""]

Match(end, name, second) == [ok |-> TRUE, end |-> end, name |-> name, second |-> second]

\* typeName.match(/mapping\s*\(\s*(.+?)\s*=>\s*(.+)\s*\)/) with the word
\* mapping at position i: name is group 1 and second is group 2, each with
\* the white space around it that trim() removes.  The lazy group 1 ends
\* before the first arrow behind its first character, the greedy group 2
\* runs to the last closing parenthesis.
mappingMatchAt(t, i) ==
    LET p == RunEnd(t, i + 7, SpaceChars)
        k == RunEnd(t, p + 1, SpaceChars)
        r == LastIndexOf(t, ")", Len(t))
        first == IndexOf(t, "=>", k + 1)
        arrow == IF first > 0 /\ r >= first + 3 THEN first
                 ELSE IF k > p + 1 /\ HasAt(t, k, "=>") /\ r >= k + 3 THEN k
                 ELSE 0
    IN  IF HasAt(t, i, "mapping") /\ Char(t, p) = "(" /\ arrow > 0
        THEN Match(r + 1, SubSeq(t, p + 1, arrow - 1), SubSeq(t, arrow + 2, r - 1))
        ELSE NoMatch

RECURSIVE mappingMatchFrom(_, _)
mappingMatchFrom(t, i) ==
    IF i > Len(t) THEN NoMatch
    ELSE IF mappingMatchAt(t, i).ok THEN mappingMatchAt(t, i)
    ELSE mappingMatchFrom(t, i + 1)

mappingMatch(t) == mappingMatchFrom(t, 1)

\* typeName.match(/^(.+?)\s*\[.*\]$/): name is group 1.
arrayMatch(t) ==
    LET b == IndexOf(t, "[", 2)
        e == RunStart(t, b - 1, SpaceChars) - 1
    IN  IF b > 0 /\ Char(t, Len(t)) = "]" /\ b < Len(t)
        THEN Match(Len(t) + 1, SubSeq(t, 1, IF e >= 1 THEN e ELSE 1), "")
        ELSE NoMatch

RECURSIVE extractFromTypeName(_, _)
extractFromTypeName(typeName, types) ==
    LET mm == mappingMatch(typeName)
        am == arrayMatch(typeName)
        cleanName == LastPart(typeName)
    IN  IF mm.ok
        THEN extractFromTypeName(trim(mm.second),
                 extractFromTypeName(trim(mm.name), types))
        ELSE IF am.ok THEN extractFromTypeName(trim(am.name), types)
        ELSE IF toLowerCase(cleanName) \in ELEMENTARY_TYPES THEN types
        ELSE IF cleanName \in SKIP_NAMES THEN types
        ELSE IF Char(cleanName, 1) \in UpperChars THEN SetAdd(types, typeName)
        ELSE types

\* addTypeIfValid without its exclusion filters.
addTypeUnfiltered(name, types) == SetAdd(types, name)

addTypeIfValid(name, types) ==
    IF name = "" THEN types
    ELSE IF toLowerCase(name) \in ELEMENTARY_TYPES THEN types
    ELSE IF name \in SKIP_NAMES THEN types
    ELSE IF Len(name) < 2 THEN types
    ELSE IF Char(name, 1) = "I" /\ Char(name, 2) \in UpperChars THEN types
    ELSE SetAdd(types, name)

\* \b([A-Z][a-zA-Z0-9_]*) stands at position i: a word that starts there
\* with a capital.  The word always runs to its end, as every pattern goes
\* on with something that is not a word character.
TypeWordAt(s, i) == Char(s, i - 1) \notin WordChars /\ Char(s, i) \in UpperChars

\* /\b([A-Z][a-zA-Z0-9_]*)\s+(?:memory|storage|calldata)\s+\w+/g at i
varDeclLocationAt(s, i) ==
    LET e == RunEnd(s, i, WordChars)
        k == RunEnd(s, e, SpaceChars)
        kw == IF HasAt(s, k, "memory") THEN 6
              ELSE IF HasAt(s, k, "storage") THEN 7
              ELSE IF HasAt(s, k, "calldata") THEN 8 ELSE 0
        n == RunEnd(s, k + kw, SpaceChars)
        w == RunEnd(s, n, WordChars)
    IN  IF TypeWordAt(s, i) /\ k > e /\ kw > 0 /\ n > k + kw /\ w > n
        THEN Match(w, SubSeq(s, i, e - 1), "") ELSE NoMatch

\* /\b([A-Z][a-zA-Z0-9_]*)\s+\w+\s*[=;,)]/g at i
varDeclAt(s, i) ==
    LET e == RunEnd(s, i, WordChars)
        n == RunEnd(s, e, SpaceChars)
        w == RunEnd(s, n, WordChars)
        p == RunEnd(s, w, SpaceChars)
    IN  IF TypeWordAt(s, i) /\ n > e /\ w > n /\ Char(s, p) \in {"=", ";", ",", ")"}
        THEN Match(p + 1, SubSeq(s, i, e - 1), "") ELSE NoMatch

\* /\b([A-Z][a-zA-Z0-9_]*)\s*\(/g at i
structInstAt(s, i) ==
    LET e == RunEnd(s, i, WordChars)
        p == RunEnd(s, e, SpaceChars)
    IN  IF TypeWordAt(s, i) /\ Char(s, p) = "("
        THEN Match(p + 1, SubSeq(s, i, e - 1), "") ELSE NoMatch

\* /\b([A-Z][a-zA-Z0-9_]*)\.([A-Z][A-Z0-9_]*)\b/g at i
enumAccessAt(s, i) ==
    LET e == RunEnd(s, i, WordChars)
        m == RunEnd(s, e + 1, UpperChars \cup DigitChars \cup {"_"})
    IN  IF /\ TypeWordAt(s, i) /\ Char(s, e) = "." /\ Char(s, e + 1) \in UpperChars
           /\ Char(s, m) \notin WordChars
        THEN Match(m, SubSeq(s, i, e - 1), SubSeq(s, e + 1, m - 1)) ELSE NoMatch

\* /==\s*([A-Z][a-zA-Z0-9_]*)\.|\b([A-Z][a-zA-Z0-9_]*)\.\w+\s*[=!<>]/g at i;
\* name is match[1] || match[2].
typeCompareAt(s, i) ==
    LET n == RunEnd(s, i + 2, SpaceChars)
        e1 == RunEnd(s, n, WordChars)
        e2 == RunEnd(s, i, WordChars)
        w == RunEnd(s, e2 + 1, WordChars)
        p == RunEnd(s, w, SpaceChars)
    IN  IF HasAt(s, i, "==") /\ Char(s, n) \in UpperChars /\ Char(s, e1) = "."
        THEN Match(e1 + 1, SubSeq(s, n, e1 - 1), "")
        ELSE IF /\ TypeWordAt(s, i) /\ Char(s, e2) = "." /\ w > e2 + 1
                /\ Char(s, p) \in {"=", "!", "<", ">"}
        THEN Match(p + 1, SubSeq(s, i, e2 - 1), "")
        ELSE NoMatch

\* /\b([A-Z][a-zA-Z0-9_]*)\b/g at i
genericAt(s, i) ==
    LET e == RunEnd(s, i, WordChars)
    IN  IF TypeWordAt(s, i) THEN Match(e, SubSeq(s, i, e - 1), "") ELSE NoMatch

BodyPatterns ==
    <<"varDeclLocation", "varDecl", "structInst", "enumAccess", "typeCompare",
      "generic">>

PatternAt(pattern, s, i) ==
    CASE pattern = "varDeclLocation" -> varDeclLocationAt(s, i)
      [] pattern = "varDecl" -> varDeclAt(s, i)
      [] pattern = "structInst" -> structInstAt(s, i)
      [] pattern = "enumAccess" -> enumAccessAt(s, i)
      [] pattern = "typeCompare" -> typeCompareAt(s, i)
      [] pattern = "generic" -> genericAt(s, i)

\* The positions of the source where a capitalised word starts, and those
\* where == stands: a match of a body pattern starts at one of them.
CapitalStarts(s) == {j \in 1..Len(s) : TypeWordAt(s, j)}

EqualsStarts(s) == {j \in 1..Len(s) : HasAt(s, j, "==")}

\* The positions among starts where a match of the pattern starts.
MatchStarts(pattern, s, starts) == {j \in starts : PatternAt(pattern, s, j).ok}

\* One while ((match = pattern.exec(sourceCode)) !== null) loop, from
\* lastIndex i - 1: the next match is the leftmost one, and the search
\* goes on behind it.
RECURSIVE execLoop(_, _, _, _, _)
execLoop(pattern, s, starts, i, types) ==
    LET later == {j \in starts : j >= i}
        first == CHOOSE j \in later : \A k \in later : j <= k
        m == PatternAt(pattern, s, first)
    IN  IF later = {} THEN types
        ELSE IF /\ pattern = "generic"
                /\ m.name = toUpperCase(m.name) /\ Char(m.name, 1) # "I"
        THEN execLoop(pattern, s, starts, m.end, types)
        ELSE execLoop(pattern, s, starts, m.end, addTypeIfValid(m.name, types))

RECURSIVE extractTypesFromBodyFrom(_, _, _, _)
extractTypesFromBodyFrom(sourceCode, starts, p, types) ==
    IF p > Len(BodyPatterns) THEN types
    ELSE extractTypesFromBodyFrom(sourceCode, starts, p + 1,
             execLoop(BodyPatterns[p], sourceCode,
                      MatchStarts(BodyPatterns[p], sourceCode, starts), 1,
                      types))

extractTypesFromBody(sourceCode, types) ==
    extractTypesFromBodyFrom(sourceCode,
        CapitalStarts(sourceCode) \cup EqualsStarts(sourceCode), 1, types)

RECURSIVE extractFromParameters(_, _)
extractFromParameters(params, types) ==
    IF params = <<>> THEN types
    ELSE extractFromParameters(Tail(params),
             extractFromTypeName(Head(params).typeName, types))

extractAllTypeNames(fi) ==
    extractTypesFromBody(fi.fullSource,
        extractFromParameters(fi.returnParameters,
            extractFromParameters(fi.parameters, <<>>)))

\* The struct or enum called typeName in the first contract of the file
\* that holds one (structs before enums), of the contract contractName
\* only when contractName is truthy: a null contractName is the empty
\* string here, which the code's tests of contractName treat alike.
findTypeInContracts(typeName, contractName, contracts) ==
    LET eligible == SelectSeq(contracts, LAMBDA c :
                        contractName = "" \/ c.name = contractName)
        found == [k \in 1..Len(eligible) |->
                    LET ss == SelectSeq(eligible[k].structs, LAMBDA d : d.name = typeName)
                        es == SelectSeq(eligible[k].enums, LAMBDA d : d.name = typeName)
                    IN  IF ss # <<>> THEN <<[kind |-> "struct", definition |-> Head(ss)]>>
                        ELSE IF es # <<>> THEN <<[kind |-> "enum", definition |-> Head(es)]>>
                        ELSE <<>>]
        hits == Flatten(found)
    IN  IF hits = <<>> THEN NULL
        ELSE [name |-> IF contractName = "" THEN typeName
                       ELSE contractName \o "." \o typeName,
              kind |-> Head(hits).kind, definition |-> Head(hits).definition]

findTypeInFile(typeName, contractName, file) ==
    findTypeInContracts(typeName, contractName, file.contracts)

\* The first non-null result of findTypeInFile over the files, in order.
RECURSIVE findTypeInFiles(_, _, _)
findTypeInFiles(localName, contractName, files) ==
    IF files = <<>> THEN NULL
    ELSE LET result == findTypeInFile(localName, contractName, Head(files))
         IN  IF result # NULL THEN result
             ELSE findTypeInFiles(localName, contractName, Tail(files))

\* resolveType without the search of the current file first.
resolveTypeInOrder(typeName, currentFile, files) ==
    LET parts == Split(typeName, ".")
    IN  findTypeInFiles(parts[Len(parts)],
                        IF Len(parts) > 1 THEN parts[1] ELSE "", files)

resolveType(typeName, currentFile, files) ==
    LET parts == Split(typeName, ".")
        localName == parts[Len(parts)]
        contractName == IF Len(parts) > 1 THEN parts[1] ELSE ""
        localResult == findTypeInFile(localName, contractName, currentFile)
    IN  IF localResult # NULL THEN localResult
        ELSE findTypeInFiles(localName, contractName,
                 SelectSeq(files, LAMBDA f : f.filePath # currentFile.filePath))

RECURSIVE resolveTypesFrom(_, _, _, _, _)
resolveTypesFrom(typeNames, seenTypes, references, currentFile, files) ==
    IF typeNames = <<>> THEN references
    ELSE LET typeName == Head(typeNames)
             normalizedName == LastPart(typeName)
             reference == resolveType(typeName, currentFile, files)
         IN  IF normalizedName \in seenTypes
             THEN resolveTypesFrom(Tail(typeNames), seenTypes, references,
                                   currentFile, files)
             ELSE resolveTypesFrom(Tail(typeNames),
                      seenTypes \cup {normalizedName},
                      IF reference # NULL THEN Append(references, reference)
                      ELSE references,
                      currentFile, files)

\* resolveTypes without the seenTypes check: every type name is resolved.
resolveTypesKeepAll(fi, currentFile, files) ==
    LET typeNames == extractAllTypeNames(fi)
        found == [k \in 1..Len(typeNames) |->
                     resolveType(typeNames[k], currentFile, files)]
    IN  SelectSeq(found, LAMBDA r : r # NULL)

resolveTypes(fi, currentFile, files) ==
    resolveTypesFrom(extractAllTypeNames(fi), {}, <<>>, currentFile, files)

resolveSingleType(typeName, files) ==
    LET parts == Split(typeName, ".")
        localName == parts[Len(parts)]
        contractName == IF Len(parts) > 1 THEN parts[1] ELSE ""
    IN  findTypeInFiles(localName, contractName, files)

typeExists(typeName, files) == resolveSingleType(typeName, files) # NULL

-----------------------------------------------------------------------------
(* The inputs of the call-graph analysis: a function whose body is made of *)
(* up to MaxStatements statements, each ending its line or not, and an     *)
(* index of two files.                                                     *)

MaxStatements == 2

CallStatements ==
    {"foo(x);", "_bar(y);", "this.foo(x);", "tok.foo(x);",
     "IERC20(t).foo(x);", "run(x);", "if (uint256(x) > 0) require(ok);",
     "othis.foo(x);", "missing(x);"}

StatementEnds == {" ", "\n"}

RECURSIVE Bodies(_, _, _)
Bodies(statements, ends, n) ==
    IF n = 0 THEN {""}
    ELSE LET shorter == Bodies(statements, ends, n - 1)
         IN  shorter \cup {b \o s \o e : b \in shorter, s \in statements,
                                          e \in ends}

\* The text of a parameter list, as the signature declares it; a null
\* storageLocation is the empty string.
RECURSIVE ParameterList(_)
ParameterList(params) ==
    IF params = <<>> THEN ""
    ELSE LET p == Head(params)
             location == IF p.storageLocation = "" THEN ""
                         ELSE " " \o p.storageLocation
             name == IF p.name = "" THEN "" ELSE " " \o p.name
             rest == IF Len(params) = 1 THEN ""
                     ELSE ", " \o ParameterList(Tail(params))
         IN  p.typeName \o location \o name \o rest

\* The function under analysis, run, declared at line 10 of a.sol: its
\* full source is its signature and its body.
AnalysedFunction(parameters, returnParameters, body) ==
    LET returns == IF returnParameters = <<>> THEN ""
                   ELSE " returns (" \o ParameterList(returnParameters) \o ")"
    IN  FunctionRec("run", "{\n" \o body \o "}",
                    "function run(" \o ParameterList(parameters) \o ") public"
                        \o returns \o " {\n" \o body \o "}",
                    parameters, returnParameters, 10, "a.sol")

\* A function of the index that has a body, and one that has none.
Defined(name, line, path) ==
    FunctionRec(name, "{ return; }", "function " \o name \o "() { return; }",
                <<>>, <<>>, line, path)

Declared(name, line, path) ==
    FunctionRec(name, "", "function " \o name \o "();", <<>>, <<>>, line, path)

\* The index: a.sol holds contract Main with the analysed function and the
\* functions mainExtra, b.sol holds contract Lib with the functions lib.
CallIndex(fi, mainExtra, lib, mainFirst) ==
    LET a == ParsedFileRec("a.sol",
                 <<ContractRec("Main", "contract", <<>>, <<fi>> \o mainExtra,
                               <<>>, <<>>, <<>>, "a.sol")>>)
        b == ParsedFileRec("b.sol",
                 <<ContractRec("Lib", "library", <<>>, lib,
                               <<>>, <<>>, <<>>, "b.sol")>>)
    IN  IF mainFirst THEN <<a, b>> ELSE <<b, a>>

MainExtras == {<<>>, <<Defined("foo", 20, "a.sol")>>}

LibFunctions == {<<>>, <<Defined("foo", 5, "b.sol"), Defined("_bar", 9, "b.sol")>>}

Idle == [state |-> "idle", value |-> <<>>]

Returned(v) == [state |-> "returned", value |-> v]

\* The parsed file the analysed function lives in.
CurrentFile == Head(FileAt(workspaceFiles, functionInfo.filePath))

\* No syntax tree has been handed to the traverser.
InitTraverser ==
    /\ ast = NULL
    /\ foundNodes = Idle

\* No diagram is open.
InitWebview ==
    /\ displayedBlocks = {}
    /\ pendingImports = <<>>
    /\ arrows = <<>>
    /\ postedMessages = <<>>
    /\ importResponses = <<>>

InitResolver ==
    /\ contractMap = <<>>
    /\ inheritedBy = <<>>
    /\ inheritanceChains = <<>>
    /\ implementing = Idle
    /\ implementations = Idle

InitCall ==
    /\ \E body \in Bodies(CallStatements, StatementEnds, MaxStatements),
          mainExtra \in MainExtras, lib \in LibFunctions, mainFirst \in BOOLEAN :
          /\ functionInfo = AnalysedFunction(<<ParameterRec("x", "uint", "")>>,
                                             <<>>, body)
          /\ workspaceFiles = CallIndex(functionInfo, mainExtra, lib, mainFirst)
    /\ innerCalls = Idle
    /\ referencedTypes = Idle
    /\ lookups = <<>>
    /\ InitResolver
    /\ InitWebview
    /\ InitTraverser
    /\ stateVariableNames = Idle

\* FunctionAnalyzer's call of buildCallGraph on the analysed function.
BuildCallGraph ==
    /\ innerCalls.state = "idle"
    /\ innerCalls' = Returned(buildCallGraph(functionInfo, CurrentFile, workspaceFiles))
    /\ UNCHANGED <<webview, ast, foundNodes, stateVariableNames, workspaceFiles,
                   functionInfo, referencedTypes, contractMap,
                   inheritedBy, inheritanceChains, implementing,
                   implementations, lookups>>

NextCall == BuildCallGraph

SpecCall == InitCall /\ [][NextCall]_vars

-----------------------------------------------------------------------------
(* Properties of the call graph.                                           *)

\* The lines of the analysed function's source.
SourceLines == Split(functionInfo.fullSource, "\n")

\* The source line an entry of the call graph was found on.
LineOf(call) == SourceLines[call.line - functionInfo.startLine + 1]

\* The position (1-based) in its line of the called name of an entry.
NameStart(call) ==
    IF HasAt(call.expression, 1, "this.") THEN call.startColumn + 6
    ELSE call.startColumn + 1

\* Some contract of the index has a function of this name.
DefinesFunction(name) ==
    \E f \in 1..Len(workspaceFiles) :
        \E c \in 1..Len(workspaceFiles[f].contracts) :
            \E g \in 1..Len(workspaceFiles[f].contracts[c].functions) :
                workspaceFiles[f].contracts[c].functions[g].name = name

\* C1: every entry that buildCallGraph returns has a non-null
\* resolvedFunction, and none carries the analysed function's own name or
\* resolves to the analysed function.
C1_ResolvedAndNotSelf ==
    innerCalls.state = "returned" =>
        \A k \in 1..Len(innerCalls.value) :
            /\ innerCalls.value[k].resolvedFunction # NULL
            /\ innerCalls.value[k].name # functionInfo.name
            /\ innerCalls.value[k].resolvedFunction # functionInfo

\* A call graph with an entry, of a function whose body calls itself: the
\* self-call would resolve (the index holds the function) and is left out.
C1_Witness ==
    /\ innerCalls.state = "returned"
    /\ innerCalls.value # <<>>
    /\ Includes(functionInfo.body, "run(x);")
    /\ DefinesFunction(functionInfo.name)

\* The name at position i of the line is a member access, receiver.name,
\* on something other than the bare word this: an identifier, or the
\* result of a cast or call (then the receiver word is empty).
OnOtherReceiver(line, i) ==
    /\ Char(line, i - 1) = "."
    /\ SubSeq(line, RunStart(line, i - 2, WordChars), i - 2) # "this"

\* C5: a method call on an interface-typed cast or on an object reference
\* other than this never produces a call-graph entry for that method.
C5_NoEntryForExternalMethodCall ==
    innerCalls.state = "returned" =>
        \A k \in 1..Len(innerCalls.value) :
            ~OnOtherReceiver(LineOf(innerCalls.value[k]),
                             NameStart(innerCalls.value[k]))

\* The bare and underscore-prefixed calls name(...) of a line: the
\* positions where a name that is not a member access is followed by "(".
BareCallNames(line) ==
    {CallMatch(line, i, i, "").name :
        i \in {p \in 1..Len(line) : DirectCallAt(line, p) \/ InternalCallAt(line, p)}}

\* The call graph holds a resolved entry for the bare call name on lineNum.
HasEntry(lineNum, name) ==
    \E k \in 1..Len(innerCalls.value) :
        /\ innerCalls.value[k].line = lineNum
        /\ innerCalls.value[k].expression = name
        /\ innerCalls.value[k].resolvedFunction # NULL
        /\ innerCalls.value[k].resolvedFunction.name = name

\* C6: every bare or underscore-prefixed call whose name is not the
\* function's own and is in none of the exclusion lists has a resolved
\* entry exactly if the index defines a function of that name, whatever
\* else stands on the same line.
C6_BareCallResolvedIffDefined ==
    innerCalls.state = "returned" =>
        \A l \in 1..Len(SourceLines) :
            \A name \in BareCallNames(SourceLines[l]) :
                (/\ name # functionInfo.name
                 /\ name \notin (BUILTINS \cup KEYWORDS \cup TYPE_CASTS))
                => (HasEntry(functionInfo.startLine + l - 1, name)
                        <=> DefinesFunction(name))

-----------------------------------------------------------------------------
(* The inputs of the type analysis: a function with at most one parameter  *)
(* and one return parameter, whose body is made of up to MaxStatements     *)
(* statements, and an index of two files: a.sol with contract Main, that   *)
(* holds the function, and b.sol with library Lib.                         *)

TypeParameters ==
    {<<>>,
     <<ParameterRec("x", "uint256", "")>>,
     <<ParameterRec("p", "Pool", "memory")>>,
     <<ParameterRec("p", "Lib.Pool", "memory")>>,
     <<ParameterRec("p", "Main.Pool", "memory")>>,
     <<ParameterRec("q", "IPool", "memory")>>,
     <<ParameterRec("m", "mapping(address => Strategy[])", "storage")>>,
     <<ParameterRec("a", "Address", "memory")>>}

TypeReturns == {<<>>, <<ParameterRec("", "Strategy", "")>>}

ElementaryStatement == "uint256 x; address a; bool b;"

TypeStatements ==
    {"Pool memory p = Pool({a: 1});", "if (s == Strategy.NO_YIELD) x = 1;",
     "IERC20(token).safeApprove(spender, amt);", ElementaryStatement,
     "IPool q = IPool(t);", "revert Error(MAX_SIZE);"}

NoTypes == [structs |-> <<>>, enums |-> <<>>]

MainTypes ==
    {NoTypes,
     [structs |-> <<StructRec("Pool", "Main", 3, "a.sol")>>, enums |-> <<>>]}

LibTypes ==
    {NoTypes,
     [structs |-> <<StructRec("Pool", "Lib", 3, "b.sol"),
                    StructRec("IPool", "Lib", 4, "b.sol"),
                    StructRec("Address", "Lib", 5, "b.sol"),
                    StructRec("Error", "Lib", 6, "b.sol"),
                    StructRec("IERC20", "Lib", 7, "b.sol")>>,
      enums |-> <<EnumRec("Strategy", "Lib", 8, "b.sol")>>],
     [structs |-> <<>>,
      enums |-> <<EnumRec("Pool", "Lib", 3, "b.sol"),
                  EnumRec("Strategy", "Lib", 8, "b.sol")>>]}

TypeIndex(fi, mainTypes, libTypes) ==
    <<ParsedFileRec("a.sol",
          <<ContractRec("Main", "contract", <<>>, <<fi>>, mainTypes.structs,
                        mainTypes.enums, <<>>, "a.sol")>>),
      ParsedFileRec("b.sol",
          <<ContractRec("Lib", "library", <<>>, <<>>, libTypes.structs,
                        libTypes.enums, <<>>, "b.sol")>>)>>

InitType ==
    /\ \E parameters \in TypeParameters, returnParameters \in TypeReturns,
          body \in Bodies(TypeStatements, {"\n"}, MaxStatements),
          mainTypes \in MainTypes, libTypes \in LibTypes :
          /\ functionInfo = AnalysedFunction(parameters, returnParameters, body)
          /\ workspaceFiles = TypeIndex(functionInfo, mainTypes, libTypes)
    /\ innerCalls = Idle
    /\ referencedTypes = Idle
    /\ lookups = <<>>
    /\ InitResolver
    /\ InitWebview
    /\ InitTraverser
    /\ stateVariableNames = Idle

\* FunctionAnalyzer's call of resolveTypes on the analysed function.
ResolveTypes ==
    /\ referencedTypes.state = "idle"
    /\ referencedTypes' =
           Returned(resolveTypes(functionInfo, CurrentFile, workspaceFiles))
    /\ UNCHANGED <<webview, ast, foundNodes, stateVariableNames, workspaceFiles,
                   functionInfo, innerCalls, contractMap,
                   inheritedBy, inheritanceChains, implementing,
                   implementations, lookups>>

NextType == ResolveTypes

SpecType == InitType /\ [][NextType]_vars

-----------------------------------------------------------------------------
(* Properties of the referenced types.                                     *)

\* The contracts of the index.
AllContracts == Flatten([f \in 1..Len(workspaceFiles) |-> workspaceFiles[f].contracts])

\* The structs and the enums that the contracts named by names define.
StructsIn(names) ==
    UNION {Range(c.structs) : c \in {c \in Range(AllContracts) : c.name \in names}}

EnumsIn(names) ==
    UNION {Range(c.enums) : c \in {c \in Range(AllContracts) : c.name \in names}}

ContractNames == {c.name : c \in Range(AllContracts)}

\* Some contract among names defines a struct or an enum called N.
DefinesTypeIn(N, names) ==
    \E d \in StructsIn(names) \cup EnumsIn(names) : d.name = N

DefinesType(N) == DefinesTypeIn(N, ContractNames)

\* The name behind the last dot of a possibly qualified name.
UnqualifiedName(name) == LastPart(name)

\* The interface-naming convention: a capital I, then another capital.
InterfaceNamed(name) == Char(name, 1) = "I" /\ Char(name, 2) \in UpperChars

\* The positions of the returned references with unqualified name N.
ReferencesNamed(N) ==
    {k \in 1..Len(referencedTypes.value) :
        UnqualifiedName(referencedTypes.value[k].name) = N}

\* A reference to a definition of the index called N, of the kind it says.
ResolvedTo(reference, N) ==
    /\ reference.definition # NULL
    /\ reference.definition.name = N
    /\ \/ reference.kind = "struct" /\ reference.definition \in StructsIn(ContractNames)
       \/ reference.kind = "enum" /\ reference.definition \in EnumsIn(ContractNames)

\* The candidate type names of the analysed function that survive the
\* exclusion filters, in the order the resolver meets them.
Candidates == extractAllTypeNames(functionInfo)

\* The first candidate with unqualified name N, and the contracts that its
\* resolution searches: the one its qualifier names, or all of them.
FirstCandidate(typeNames, N) ==
    Head(SelectSeq(typeNames, LAMBDA c : UnqualifiedName(c) = N))

SearchedContracts(candidate) ==
    LET parts == Split(candidate, ".")
    IN  IF Len(parts) > 1 /\ parts[1] # "" THEN {parts[1]} ELSE ContractNames

\* C4: resolveTypes returns no TypeReference whose unqualified name follows
\* the interface-naming convention, wherever the function mentions the name
\* and whether or not the index defines a struct or enum of that name.
C4_NoInterfaceNamedReference ==
    referencedTypes.state = "returned" =>
        \A k \in 1..Len(referencedTypes.value) :
            ~InterfaceNamed(UnqualifiedName(referencedTypes.value[k].name))

\* C7, as stated: for every candidate type name N that the index defines as
\* a struct or enum, resolveTypes returns exactly one TypeReference with
\* unqualified name N, resolved to a definition of its kind.
C7_ExactlyOneReference ==
    referencedTypes.state = "returned" =>
        \A N \in {UnqualifiedName(c) : c \in Range(Candidates)} :
            DefinesType(N) =>
                /\ Cardinality(ReferencesNamed(N)) = 1
                /\ \A k \in ReferencesNamed(N) :
                       ResolvedTo(referencedTypes.value[k], N)

\* C7, amended: for every candidate type name N that is defined as a struct
\* or enum in a contract that the resolution of the first candidate for N
\* searches (the contract named by its qualifier, any contract when it has
\* none), resolveTypes returns exactly one TypeReference with unqualified
\* name N, resolved to a definition of its kind.
C7_ExactlyOneReferenceWhereSearched ==
    referencedTypes.state = "returned" =>
        LET typeNames == Candidates
        IN  \A N \in {UnqualifiedName(c) : c \in Range(typeNames)} :
                DefinesTypeIn(N, SearchedContracts(FirstCandidate(typeNames, N))) =>
                    /\ Cardinality(ReferencesNamed(N)) = 1
                    /\ \A k \in ReferencesNamed(N) :
                           ResolvedTo(referencedTypes.value[k], N)

\* Pool is referenced as a contract-qualified parameter type and, in the
\* body, by a declaration and an instantiation, and is returned once.
C7_Witness ==
    /\ referencedTypes.state = "returned"
    /\ \E k \in 1..Len(functionInfo.parameters) :
           functionInfo.parameters[k].typeName = "Lib.Pool"
    /\ Includes(functionInfo.body, "Pool memory p = Pool({a: 1});")
    /\ DefinesTypeIn("Pool", {"Lib"})
    /\ Cardinality(ReferencesNamed("Pool")) = 1

\* The function mentions elementary types only.
OnlyElementary ==
    /\ \A k \in 1..Len(functionInfo.parameters) :
           toLowerCase(functionInfo.parameters[k].typeName) \in ELEMENTARY_TYPES
    /\ \A k \in 1..Len(functionInfo.returnParameters) :
           toLowerCase(functionInfo.returnParameters[k].typeName) \in ELEMENTARY_TYPES
    /\ functionInfo.body \in
           {"{\n" \o b \o "}" : b \in Bodies({ElementaryStatement}, {"\n"}, MaxStatements)}

\* C8: resolveTypes returns no TypeReference whose unqualified name is, in
\* lower case, an elementary type name, or whose name is in the skip list
\* of reserved words; a function that mentions elementary types only gets
\* the empty list.
C8_NoElementaryOrReservedReference ==
    referencedTypes.state = "returned" =>
        /\ \A k \in 1..Len(referencedTypes.value) :
               LET name == referencedTypes.value[k].name
               IN  /\ toLowerCase(UnqualifiedName(name)) \notin ELEMENTARY_TYPES
                   /\ UnqualifiedName(name) \notin SKIP_NAMES
                   /\ name \notin SKIP_NAMES
        /\ OnlyElementary => referencedTypes.value = <<>>

\* The index defines structs called Address and Error, the function has a
\* parameter of type Address and its body instantiates Error: neither is
\* returned.
C8_Witness ==
    /\ referencedTypes.state = "returned"
    /\ DefinesType("Address") /\ DefinesType("Error")
    /\ \E k \in 1..Len(functionInfo.parameters) :
           functionInfo.parameters[k].typeName = "Address"
    /\ Includes(functionInfo.body, "revert Error(MAX_SIZE);")
    /\ ReferencesNamed("Address") = {} /\ ReferencesNamed("Error") = {}

-----------------------------------------------------------------------------
(* InheritanceResolver                                                     *)

\* A Map, kept as the sequence of its entries in insertion order.
MapHas(map, key) == \E k \in 1..Len(map) : map[k].key = key

MapGet(map, key) ==
    LET hits == SelectSeq(map, LAMBDA e : e.key = key)
    IN  IF hits = <<>> THEN NULL ELSE Head(hits).value

MapSet(map, key, value) ==
    IF MapHas(map, key)
    THEN [k \in 1..Len(map) |->
             IF map[k].key = key THEN [key |-> key, value |-> value] ELSE map[k]]
    ELSE Append(map, [key |-> key, value |-> value])

\* First pass that keeps the first contract of a name.
RECURSIVE collectContractsKeepFirst(_, _)
collectContractsKeepFirst(contracts, map) ==
    IF contracts = <<>> THEN map
    ELSE collectContractsKeepFirst(Tail(contracts),
             IF MapHas(map, Head(contracts).name) THEN map
             ELSE MapSet(map, Head(contracts).name, Head(contracts)))

\* First pass of buildInheritanceGraph: the contracts by name, the last
\* contract of a name replacing the earlier ones.
RECURSIVE collectContracts(_, _)
collectContracts(contracts, map) ==
    IF contracts = <<>> THEN map
    ELSE collectContracts(Tail(contracts),
                          MapSet(map, Head(contracts).name, Head(contracts)))

\* Second pass: name is added to the inheritors of each of its bases.
RECURSIVE addInheritor(_, _, _)
addInheritor(name, baseContracts, map) ==
    IF baseContracts = <<>> THEN map
    ELSE LET baseName == Head(baseContracts)
             inheritors == IF MapHas(map, baseName) THEN MapGet(map, baseName)
                           ELSE <<>>
         IN  addInheritor(name, Tail(baseContracts),
                          MapSet(map, baseName, SetAdd(inheritors, name)))

RECURSIVE collectInheritedBy(_, _)
collectInheritedBy(entries, map) ==
    IF entries = <<>> THEN map
    ELSE collectInheritedBy(Tail(entries),
             addInheritor(Head(entries).key, Head(entries).value.baseContracts, map))

\* chain.push(name) for every name of baseChain, in the chain or not.
pushAll(chain, baseChain) == chain \o baseChain

\* chain.push(name) for every name of baseChain that the chain lacks.
RECURSIVE pushMissing(_, _)
pushMissing(chain, baseChain) ==
    IF baseChain = <<>> THEN chain
    ELSE pushMissing(SetAdd(chain, Head(baseChain)), Tail(baseChain))

\* computeInheritanceChain over the contract map cmap; visited is the set of
\* the names on the path to contractName, copied for every base.
RECURSIVE computeInheritanceChain(_, _, _)
RECURSIVE appendBaseChains(_, _, _, _)
computeInheritanceChain(cmap, contractName, visited) ==
    IF contractName \in visited THEN <<>>
    ELSE IF ~MapHas(cmap, contractName) THEN <<contractName>>
    ELSE appendBaseChains(cmap, MapGet(cmap, contractName).baseContracts,
                          visited \cup {contractName}, <<contractName>>)

appendBaseChains(cmap, baseContracts, visited, chain) ==
    IF baseContracts = <<>> THEN chain
    ELSE appendBaseChains(cmap, Tail(baseContracts), visited,
             pushMissing(chain,
                 computeInheritanceChain(cmap, Head(baseContracts), visited)))

\* Third pass that raises an error for a contract on a cycle of base
\* declarations, and so leaves the chains after it uncomputed.
computeChainsRejectingCycles(cmap) ==
    LET OnCycle(name) ==
            \E b \in Range(MapGet(cmap, name).baseContracts) :
                name \in Range(computeInheritanceChain(cmap, b, {}))
        RECURSIVE From(_)
        From(k) ==
            IF k > Len(cmap) \/ OnCycle(cmap[k].key) THEN <<>>
            ELSE <<[key |-> cmap[k].key,
                    value |-> computeInheritanceChain(cmap, cmap[k].key, {})]>>
                 \o From(k + 1)
    IN  From(1)

\* Third pass: the chain of every contract of the map.
computeChains(cmap) ==
    [k \in 1..Len(cmap) |->
        [key |-> cmap[k].key,
         value |-> computeInheritanceChain(cmap, cmap[k].key, {})]]

\* The depth of nested calls at which the engine gives up with a
\* RangeError (Maximum call stack size exceeded).
StackLimit == 8

\* collectInheritors of getImplementingContracts, at call depth depth,
\* with the result set so far: the result, or threw when the call stack
\* is exhausted.
RECURSIVE collectInheritors(_, _, _)
RECURSIVE collectEachInheritor(_, _, _)
collectInheritors(name, result, depth) ==
    IF depth > StackLimit THEN [threw |-> TRUE, result |-> result]
    ELSE IF ~MapHas(inheritedBy, name) THEN [threw |-> FALSE, result |-> result]
    ELSE collectEachInheritor(MapGet(inheritedBy, name), result, depth)

collectEachInheritor(inheritors, result, depth) ==
    IF inheritors = <<>> THEN [threw |-> FALSE, result |-> result]
    ELSE LET inner == collectInheritors(Head(inheritors),
                                        SetAdd(result, Head(inheritors)),
                                        depth + 1)
         IN  IF inner.threw THEN inner
             ELSE collectEachInheritor(Tail(inheritors), inner.result, depth)

\* getImplementingContracts that counts the contract among its inheritors.
getImplementingContractsWithSelf(interfaceName) ==
    collectInheritors(interfaceName, <<interfaceName>>, 1)

getImplementingContracts(interfaceName) ==
    collectInheritors(interfaceName, <<>>, 1)

\* findMethodInContract that reports every implementation as the
\* contract's own.
findMethodInContractAsOwn(contractName, methodName) ==
    LET chain == IF MapHas(inheritanceChains, contractName)
                 THEN MapGet(inheritanceChains, contractName)
                 ELSE <<contractName>>
        holders == SelectSeq(chain, LAMBDA name :
                       /\ MapHas(contractMap, name)
                       /\ MapGet(contractMap, name).kind # "interface"
                       /\ FirstFunctionNamed(MapGet(contractMap, name).functions,
                                             methodName) # NULL
                       /\ trim(FirstFunctionNamed(MapGet(contractMap, name).functions,
                                                  methodName).body) # "")
    IN  IF holders = <<>> THEN NULL
        ELSE [contractName |-> Head(holders),
              contractKind |-> MapGet(contractMap, Head(holders)).kind,
              functionInfo |-> FirstFunctionNamed(
                                   MapGet(contractMap, Head(holders)).functions,
                                   methodName),
              filePath |-> MapGet(contractMap, Head(holders)).filePath,
              isInherited |-> FALSE,
              inheritanceChain |-> chain]

\* The first contract of the chain of contractName that is no interface
\* and whose first function called methodName has a body.
findMethodInContract(contractName, methodName) ==
    LET chain == IF MapHas(inheritanceChains, contractName)
                 THEN MapGet(inheritanceChains, contractName)
                 ELSE <<contractName>>
        holders == SelectSeq(chain, LAMBDA name :
                       /\ MapHas(contractMap, name)
                       /\ MapGet(contractMap, name).kind # "interface"
                       /\ FirstFunctionNamed(MapGet(contractMap, name).functions,
                                             methodName) # NULL
                       /\ trim(FirstFunctionNamed(MapGet(contractMap, name).functions,
                                                  methodName).body) # "")
    IN  IF holders = <<>> THEN NULL
        ELSE [contractName |-> Head(holders),
              contractKind |-> MapGet(contractMap, Head(holders)).kind,
              functionInfo |-> FirstFunctionNamed(
                                   MapGet(contractMap, Head(holders)).functions,
                                   methodName),
              filePath |-> MapGet(contractMap, Head(holders)).filePath,
              isInherited |-> Head(holders) # contractName,
              inheritanceChain |-> chain]

\* findImplementations: threw when getImplementingContracts throws.
findImplementations(interfaceName, methodName) ==
    LET implementingContracts == getImplementingContracts(interfaceName)
        concrete == SelectSeq(implementingContracts.result, LAMBDA name :
                        /\ MapHas(contractMap, name)
                        /\ MapGet(contractMap, name).kind # "interface")
        found == [k \in 1..Len(concrete) |->
                     findMethodInContract(concrete[k], methodName)]
    IN  IF implementingContracts.threw THEN [threw |-> TRUE, result |-> <<>>]
        ELSE [threw |-> FALSE,
              result |-> SelectSeq(found, LAMBDA impl : impl # NULL)]

hasContract(name) == MapHas(contractMap, name)

getContract(name) == MapGet(contractMap, name)

-----------------------------------------------------------------------------
(* The inputs of the inheritance analysis: an index of three contracts,    *)
(* A in a.sol, B and C in b.sol, each an interface that declares m, a      *)
(* contract that implements m or a contract without m, with up to MaxBases *)
(* base declarations among them, cyclic and self-referential ones          *)
(* included.                                                               *)

MaxBases == 2

ContractPool == <<"A", "B", "C">>

Profiles == {"interface", "implements", "plain"}

BaseDeclarations ==
    {edges \in SUBSET (Range(ContractPool) \X Range(ContractPool)) :
        Cardinality(edges) <= MaxBases}

ProfiledContract(name, profile, edges, path) ==
    ContractRec(name,
                IF profile = "interface" THEN "interface" ELSE "contract",
                SelectSeq(ContractPool, LAMBDA b : <<name, b>> \in edges),
                IF profile \in {"interface", "declares"}
                THEN <<Declared("m", 2, path)>>
                ELSE IF profile = "implements" THEN <<Defined("m", 2, path)>>
                ELSE IF profile = "overloaded"
                THEN <<Declared("m", 2, path), Defined("m", 3, path)>>
                ELSE <<>>,
                <<>>, <<>>, <<>>, path)

InheritanceIndex(profile, edges) ==
    <<ParsedFileRec("a.sol", <<ProfiledContract("A", profile["A"], edges, "a.sol")>>),
      ParsedFileRec("b.sol", <<ProfiledContract("B", profile["B"], edges, "b.sol"),
                               ProfiledContract("C", profile["C"], edges, "b.sol")>>)>>

InitInheritance ==
    /\ \E profile \in [Range(ContractPool) -> Profiles], edges \in BaseDeclarations :
          workspaceFiles = InheritanceIndex(profile, edges)
    /\ functionInfo = NULL
    /\ innerCalls = Idle
    /\ referencedTypes = Idle
    /\ lookups = <<>>
    /\ InitResolver
    /\ InitWebview
    /\ InitTraverser
    /\ stateVariableNames = Idle

\* The third pass of buildInheritanceGraph has run over the index.
GraphBuilt ==
    \A f \in 1..Len(workspaceFiles) :
        \A c \in 1..Len(workspaceFiles[f].contracts) :
            MapHas(inheritanceChains, workspaceFiles[f].contracts[c].name)

\* What a query gave: its arguments, whether the graph was built when it
\* ran, and its result or the RangeError it threw.
Outcome(arguments, outcome) ==
    [state |-> IF outcome.threw THEN "threw" ELSE "returned",
     value |-> IF outcome.threw THEN "RangeError" ELSE outcome.result,
     arguments |-> arguments, graphBuilt |-> GraphBuilt]

\* A Map left as it is where the code clears it.
keepEntries(map) == map

\* Map.prototype.clear
clear(map) == <<>>

\* inheritanceChains.set(name, chain) for every computed chain.
RECURSIVE setChains(_, _)
setChains(map, entries) ==
    IF entries = <<>> THEN map
    ELSE setChains(MapSet(map, Head(entries).key, Head(entries).value),
                   Tail(entries))

\* buildInheritanceGraph(files): the three maps are cleared and filled
\* again in three passes.
buildInheritanceGraph(files) ==
    /\ contractMap' = collectContracts(Flatten([f \in 1..Len(files) |->
                                           files[f].contracts]),
                                       clear(contractMap))
    /\ inheritedBy' = collectInheritedBy(contractMap', clear(inheritedBy))
    /\ inheritanceChains' = setChains(clear(inheritanceChains),
                                      computeChains(contractMap'))

BuildInheritanceGraph ==
    /\ buildInheritanceGraph(workspaceFiles)
    /\ UNCHANGED <<webview, ast, foundNodes, stateVariableNames, workspaceFiles,
                   functionInfo, innerCalls, referencedTypes,
                   implementing, implementations, lookups>>

GetImplementingContracts ==
    /\ \E interfaceName \in Range(ContractPool) :
          implementing' = Outcome(<<interfaceName>>,
                                  getImplementingContracts(interfaceName))
    /\ UNCHANGED <<webview, ast, foundNodes, stateVariableNames, workspaceFiles,
                   functionInfo, innerCalls, referencedTypes,
                   contractMap, inheritedBy, inheritanceChains,
                   implementations, lookups>>

FindImplementations ==
    /\ \E interfaceName \in Range(ContractPool) :
          implementations' = Outcome(<<interfaceName, "m">>,
                                     findImplementations(interfaceName, "m"))
    /\ UNCHANGED <<webview, ast, foundNodes, stateVariableNames, workspaceFiles,
                   functionInfo, innerCalls, referencedTypes,
                   contractMap, inheritedBy, inheritanceChains, implementing,
                   lookups>>

NextInheritance ==
    \/ BuildInheritanceGraph
    \/ GetImplementingContracts
    \/ FindImplementations

SpecInheritance == InitInheritance /\ [][NextInheritance]_vars

-----------------------------------------------------------------------------
(* Properties of the inheritance queries.                                  *)

\* The contract called x declares b as a base.
DeclaresBase(x, b) ==
    \E c \in Range(AllContracts) : c.name = x /\ b \in Range(c.baseContracts)

\* The contracts that declare name as a base in at most n steps.
RECURSIVE InheritorsWithin(_, _)
InheritorsWithin(name, n) ==
    IF n = 0 THEN {}
    ELSE LET nearer == InheritorsWithin(name, n - 1)
         IN  nearer \cup {x \in ContractNames :
                             \E b \in nearer \cup {name} : DeclaresBase(x, b)}

TransitiveInheritors(name) == InheritorsWithin(name, Cardinality(ContractNames))

\* The base declarations of the index contain a cycle.
CyclicBases == \E x \in ContractNames : x \in TransitiveInheritors(x)

\* C2: on the built graph getImplementingContracts(name) terminates, cyclic
\* and self-referential base declarations included, and returns the set of
\* the contracts that transitively declare name as a base.
C2_ReturnsTransitiveInheritors ==
    (implementing.state # "idle" /\ implementing.graphBuilt) =>
        /\ implementing.state = "returned"
        /\ Range(implementing.value) = TransitiveInheritors(implementing.arguments[1])

\* C3: when the base declarations contain no cycle, the result of
\* getImplementingContracts(C.name) on the built graph does not contain
\* C.name, for every contract C.
C3_AcyclicExcludesSelf ==
    (implementing.state # "idle" /\ implementing.graphBuilt /\ ~CyclicBases) =>
        /\ implementing.state = "returned"
        /\ implementing.arguments[1] \notin Range(implementing.value)

\* An acyclic index with a chain of two base declarations below the
\* queried contract: both inheritors are returned.
C3_Witness ==
    /\ implementing.state = "returned" /\ implementing.graphBuilt
    /\ ~CyclicBases
    /\ Cardinality(TransitiveInheritors(implementing.arguments[1])) = 2
    /\ Len(implementing.value) = 2

\* The contract of the index called name.
ContractNamed(name) == CHOOSE c \in Range(AllContracts) : c.name = name

\* An entry of findImplementations(interfaceName, methodName) is sound.
SoundImplementation(impl, interfaceName, methodName) ==
    LET chain == impl.inheritanceChain
    IN  /\ chain # <<>>
        /\ chain[1] \in TransitiveInheritors(interfaceName)
        /\ ContractNamed(chain[1]).kind # "interface"
        /\ chain = MapGet(inheritanceChains, chain[1])
        /\ impl.contractName \in Range(chain)
        /\ impl.functionInfo.name = methodName
        /\ impl.functionInfo \in Range(ContractNamed(impl.contractName).functions)
        /\ impl.isInherited <=> impl.contractName # chain[1]

\* The contract called name has a function m with a body.
ImplementsM(name) ==
    \E f \in Range(ContractNamed(name).functions) : f.name = "m" /\ f.body # ""

\* A without bases, and B is A, where only A implements m and nothing else
\* inherits from A.
BaseImplementsOnly ==
    /\ ContractNamed("A").baseContracts = <<>>
    /\ ContractNamed("B").baseContracts = <<"A">>
    /\ ContractNamed("A").kind # "interface"
    /\ ContractNamed("B").kind # "interface"
    /\ \A name \in ContractNames : ImplementsM(name) <=> name = "A"
    /\ TransitiveInheritors("A") = {"B"}

\* C9: on the built graph every entry of findImplementations(I, m) carries
\* the linearized chain of a non-interface contract that transitively
\* inherits from I, a contractName of that chain, a function named m
\* declared in contractName, and isInherited exactly when contractName is
\* not the first of the chain; for A and B is A where only A implements m,
\* findImplementations(A, m) is one entry with contractName A, isInherited
\* true and chain [B, A].
C9_ImplementationsSound ==
    (implementations.state = "returned" /\ implementations.graphBuilt) =>
        /\ \A k \in 1..Len(implementations.value) :
               SoundImplementation(implementations.value[k],
                                   implementations.arguments[1],
                                   implementations.arguments[2])
        /\ (BaseImplementsOnly /\ implementations.arguments = <<"A", "m">>) =>
               /\ Len(implementations.value) = 1
               /\ implementations.value[1].contractName = "A"
               /\ implementations.value[1].isInherited
               /\ implementations.value[1].inheritanceChain = <<"B", "A">>

\* findImplementations(A, m) has returned for A and B is A where only A
\* implements m.
C9_Witness ==
    /\ implementations.state = "returned" /\ implementations.graphBuilt
    /\ BaseImplementsOnly
    /\ implementations.arguments = <<"A", "m">>
    /\ Len(implementations.value) = 1

-----------------------------------------------------------------------------
(* The point lookups of the on-demand import, with the analyses of a       *)
(* function in between: a history of up to MaxLookups lookups over an      *)
(* index whose contracts Main (a.sol) and Lib (b.sol) each define a        *)
(* function foo, a type Pool and a state variable total, or nothing.       *)

MaxLookups == 3

LookupFunction ==
    AnalysedFunction(<<ParameterRec("p", "Pool", "memory")>>, <<>>,
                     "foo(x);\n")

LookupIndex(fi, mainDefines, libDefines, mainFirst) ==
    LET a == ParsedFileRec("a.sol",
                 <<ContractRec("Main", "contract", <<>>,
                       <<fi>> \o (IF mainDefines THEN <<Defined("foo", 20, "a.sol")>>
                                  ELSE <<>>),
                       IF mainDefines THEN <<StructRec("Pool", "Main", 3, "a.sol")>>
                       ELSE <<>>,
                       <<>>,
                       IF mainDefines
                       THEN <<StateVariableRec("total", "uint256", "Main", 4, "a.sol")>>
                       ELSE <<>>,
                       "a.sol")>>)
        b == ParsedFileRec("b.sol",
                 <<ContractRec("Lib", "library", <<>>,
                       IF libDefines THEN <<Defined("foo", 5, "b.sol")>> ELSE <<>>,
                       <<>>,
                       IF libDefines THEN <<EnumRec("Pool", "Lib", 3, "b.sol")>>
                       ELSE <<>>,
                       IF libDefines
                       THEN <<StateVariableRec("total", "uint256", "Lib", 4, "b.sol")>>
                       ELSE <<>>,
                       "b.sol")>>)
    IN  IF mainFirst THEN <<a, b>> ELSE <<b, a>>

InitLookup ==
    /\ functionInfo = LookupFunction
    /\ \E mainDefines \in BOOLEAN, libDefines \in BOOLEAN, mainFirst \in BOOLEAN :
          workspaceFiles = LookupIndex(functionInfo, mainDefines, libDefines,
                                       mainFirst)
    /\ innerCalls = Idle
    /\ referencedTypes = Idle
    /\ lookups = <<>>
    /\ InitResolver
    /\ InitWebview
    /\ InitTraverser
    /\ stateVariableNames = Idle

\* One lookup of the history: what was asked, and what came back.
Lookup(lookup, name, contract, result) ==
    [lookup |-> lookup, name |-> name, contract |-> contract, result |-> result]

ResolveSingleType ==
    /\ Len(lookups) < MaxLookups
    /\ \E typeName \in {"Pool", "Lib.Pool"} :
          lookups' = Append(lookups,
                         Lookup("resolveSingleType", typeName, "",
                                resolveSingleType(typeName, workspaceFiles)))
    /\ UNCHANGED <<webview, ast, foundNodes, stateVariableNames, workspaceFiles,
                   functionInfo, innerCalls, referencedTypes,
                   contractMap, inheritedBy, inheritanceChains, implementing,
                   implementations>>

ResolveSingleFunction ==
    /\ Len(lookups) < MaxLookups
    /\ \E functionName \in {"foo"} :
          lookups' = Append(lookups,
                         Lookup("resolveSingleFunction", functionName, "",
                                resolveSingleFunction(functionName, workspaceFiles)))
    /\ UNCHANGED <<webview, ast, foundNodes, stateVariableNames, workspaceFiles,
                   functionInfo, innerCalls, referencedTypes,
                   contractMap, inheritedBy, inheritanceChains, implementing,
                   implementations>>

ResolveStateVariable ==
    /\ Len(lookups) < MaxLookups
    /\ \E currentContractName \in {"", "Lib"} :
          lookups' = Append(lookups,
                         Lookup("resolveStateVariable", "total", currentContractName,
                                resolveStateVariable("total", currentContractName,
                                                     workspaceFiles)))
    /\ UNCHANGED <<webview, ast, foundNodes, stateVariableNames, workspaceFiles,
                   functionInfo, innerCalls, referencedTypes,
                   contractMap, inheritedBy, inheritanceChains, implementing,
                   implementations>>

NextLookup ==
    \/ ResolveSingleType
    \/ ResolveSingleFunction
    \/ ResolveStateVariable
    \/ BuildCallGraph
    \/ ResolveTypes
    \/ BuildInheritanceGraph

SpecLookup == InitLookup /\ [][NextLookup]_vars

\* Two lookups of the history ask the same thing.
SameLookup(i, j) ==
    /\ lookups[i].lookup = lookups[j].lookup
    /\ lookups[i].name = lookups[j].name
    /\ lookups[i].contract = lookups[j].contract

-----------------------------------------------------------------------------
(* ASTTraverser                                                            *)

\* A node of the syntax tree: its type, its loc (or null) and its
\* properties that hold nodes, in Object.keys order; a property that holds
\* one node is the sequence of that node, an absent one is empty.
ASTNode(type, loc, props) == [type |-> type, loc |-> loc, props |-> props]

Prop(key, nodes) == [key |-> key, nodes |-> nodes]

Loc(startLine, startColumn, endLine, endColumn) ==
    [start |-> [line |-> startLine, column |-> startColumn],
     end |-> [line |-> endLine, column |-> endColumn]]

\* The nodes of the property key of a node, empty when it has none.
PropNodes(node, key) ==
    Flatten([k \in 1..Len(node.props) |->
                IF node.props[k].key = key THEN node.props[k].nodes ELSE <<>>])

\* The node types that traverseChildren treats as leaves.
LeafTypes ==
    {"Identifier", "NumberLiteral", "StringLiteral", "BooleanLiteral",
     "HexLiteral", "ElementaryTypeName", "UserDefinedTypeName",
     "PragmaDirective", "ImportDirective", "EnumValue", "BreakStatement",
     "ContinueStatement", "PlaceholderStatement", "AssemblyBlock",
     "UncheckedStatement"}

\* The properties that traverseChildren visits for a node type with a case
\* of its own, in the order of the visits.
CaseKeys ==
    [SourceUnit |-> <<"children">>,
     ContractDefinition |-> <<"baseContracts", "subNodes">>,
     FunctionDefinition |-> <<"parameters", "returnParameters", "modifiers", "body">>,
     ModifierDefinition |-> <<"parameters", "body">>,
     VariableDeclaration |-> <<"typeName", "expression">>,
     StructDefinition |-> <<"members">>,
     Block |-> <<"statements">>,
     IfStatement |-> <<"condition", "trueBody", "falseBody">>,
     WhileStatement |-> <<"condition", "body">>,
     DoWhileStatement |-> <<"condition", "body">>,
     ForStatement |-> <<"initExpression", "conditionExpression",
                        "loopExpression", "body">>,
     TryStatement |-> <<"expression", "returnParameters", "body", "catchClauses">>,
     CatchClause |-> <<"parameters", "body">>,
     ReturnStatement |-> <<"expression">>,
     EmitStatement |-> <<"expression">>,
     RevertStatement |-> <<"expression">>,
     ExpressionStatement |-> <<"expression">>,
     VariableDeclarationStatement |-> <<"variables", "initialValue">>,
     FunctionCall |-> <<"expression", "arguments", "names">>,
     MemberAccess |-> <<"expression">>,
     IndexAccess |-> <<"base", "index">>,
     BinaryOperation |-> <<"left", "right">>,
     Assignment |-> <<"left", "right">>,
     UnaryOperation |-> <<"subExpression">>,
     Conditional |-> <<"condition", "trueExpression", "falseExpression">>,
     TupleExpression |-> <<"components">>,
     ArrayTypeName |-> <<"baseTypeName", "length">>,
     Mapping |-> <<"keyType", "valueType">>,
     NewExpression |-> <<"typeName">>,
     ModifierInvocation |-> <<"arguments">>,
     InheritanceSpecifier |-> <<"baseName", "arguments">>,
     UsingForDeclaration |-> <<"typeName">>,
     StateVariableDeclaration |-> <<"variables", "initialValue">>,
     EventDefinition |-> <<"parameters">>,
     ErrorDefinition |-> <<"parameters">>]

\* Every node that a property of the node holds, in Object.keys order.
AllChildren(node) ==
    Flatten([k \in 1..Len(node.props) |-> node.props[k].nodes])

\* The nodes that traverseChildren passes to traverse, in order.
ChildrenVisited(node) ==
    IF node.type \in LeafTypes THEN <<>>
    ELSE IF node.type \in DOMAIN CaseKeys
    THEN Flatten([k \in 1..Len(CaseKeys[node.type]) |->
                     PropNodes(node, CaseKeys[node.type][k])])
    ELSE AllChildren(node)

\* traverse with a visitor for nodeType only: the nodes that the callback
\* is called with, in order.  When the callback returns true (stops) the
\* children of the node it was called with are not traversed.
RECURSIVE traverse(_, _, _)
traverse(node, nodeType, stops) ==
    LET children == ChildrenVisited(node)
        below == Flatten([k \in 1..Len(children) |->
                             traverse(children[k], nodeType, stops)])
    IN  IF node.type # nodeType THEN below
        ELSE IF stops THEN <<node>>
        ELSE <<node>> \o below

findAll(node, nodeType) == traverse(node, nodeType, FALSE)

\* result is the node of the last call of the callback.
findFirst(node, nodeType) ==
    LET calls == traverse(node, nodeType, TRUE)
    IN  IF calls = <<>> THEN NULL ELSE calls[Len(calls)]

\* The span of loc contains the position.
Contains(loc, line, column) ==
    /\ line >= loc.start.line
    /\ line <= loc.end.line
    /\ (line > loc.start.line \/ column >= loc.start.column)
    /\ (line < loc.end.line \/ column <= loc.end.column)

RangeOf(loc) ==
    (loc.end.line - loc.start.line) * 1000 + (loc.end.column - loc.start.column)

\* The callback of findAtPosition over the function definitions, with the
\* result and smallestRange so far (smallestRange is Infinity while the
\* result is null).
RECURSIVE findAtPositionFrom(_, _, _, _)
findAtPositionFrom(nodes, line, column, best) ==
    IF nodes = <<>> THEN best
    ELSE LET n == Head(nodes)
             better == /\ n.loc # NULL
                       /\ Contains(n.loc, line, column)
                       /\ (best = NULL \/ RangeOf(n.loc) < RangeOf(best.loc))
         IN  findAtPositionFrom(Tail(nodes), line, column,
                                IF better THEN n ELSE best)

findAtPosition(node, line, column) ==
    findAtPositionFrom(traverse(node, "FunctionDefinition", FALSE), line,
                       column, NULL)

-----------------------------------------------------------------------------
(* Syntax trees handed to the traverser                                    *)

MaxNodes == 2

Leaf(type) == ASTNode(type, NULL, <<>>)

Identifier(name) ==
    [type |-> "Identifier", loc |-> NULL, props |-> <<>>, name |-> name]

CallOf(name, arguments) ==
    ASTNode("FunctionCall", NULL,
            <<Prop("expression", <<Identifier(name)>>),
              Prop("arguments", arguments),
              Prop("names", <<>>)>>)

BlockOf(statements) ==
    ASTNode("Block", NULL, <<Prop("statements", statements)>>)

ExpressionStatement(expression) ==
    ASTNode("ExpressionStatement", NULL, <<Prop("expression", <<expression>>)>>)

\* foo(); foo(bar()); unchecked { foo(); } if (x) { foo(); }
\* and foo{value: v}(), whose node type has no case in traverseChildren.
TreeStatements ==
    {ExpressionStatement(CallOf("foo", <<>>)),
     ExpressionStatement(CallOf("foo", <<CallOf("bar", <<>>)>>)),
     ASTNode("UncheckedStatement", NULL,
             <<Prop("block",
                    <<BlockOf(<<ExpressionStatement(CallOf("foo", <<>>))>>)>>)>>),
     ASTNode("IfStatement", NULL,
             <<Prop("condition", <<Identifier("x")>>),
               Prop("trueBody",
                    <<BlockOf(<<ExpressionStatement(CallOf("foo", <<>>))>>)>>)>>),
     ExpressionStatement(
         ASTNode("NameValueExpression", NULL,
                 <<Prop("expression", <<Identifier("foo")>>),
                   Prop("arguments", <<CallOf("v", <<>>)>>)>>)),
     ExpressionStatement(Leaf("NumberLiteral"))}

\* The sequences over a set of at most MaxNodes elements.
RECURSIVE SeqsUpTo(_, _)
SeqsUpTo(S, n) ==
    IF n = 0 THEN {<<>>}
    ELSE LET shorter == SeqsUpTo(S, n - 1)
         IN  shorter \cup {Append(s, x) : s \in shorter, x \in S}

FunctionNode(loc, statements) ==
    ASTNode("FunctionDefinition", loc,
            <<Prop("parameters", <<>>),
              Prop("returnParameters", <<>>),
              Prop("modifiers", <<>>),
              Prop("body", <<BlockOf(statements)>>)>>)

TreeOf(functions) ==
    ASTNode("SourceUnit", NULL,
            <<Prop("children",
                   <<ASTNode("ContractDefinition", NULL,
                             <<Prop("baseContracts", <<>>),
                               Prop("subNodes", functions)>>)>>)>>)

\* One function whose body is a sequence of the statements.
StatementTrees ==
    {TreeOf(<<FunctionNode(Loc(1, 0, 9, 1), statements)>>) :
        statements \in SeqsUpTo(TreeStatements, MaxNodes)}

\* The extent of a function: one line of 1500 columns, one line of 4
\* columns, two lines that end left of their start, three lines, or no loc.
Extents ==
    {Loc(1, 0, 1, 1500), Loc(1, 5, 1, 9), Loc(1, 20, 2, 10), Loc(1, 0, 3, 1),
     NULL}

\* Functions with empty bodies and the extents.
ExtentTrees ==
    {TreeOf([k \in 1..Len(extents) |-> FunctionNode(extents[k], <<>>)]) :
        extents \in SeqsUpTo(Extents, MaxNodes)}

QueriedTypes == {"FunctionCall", "FunctionDefinition", "Block"}

QueriedLines == {1, 2, 4}

QueriedColumns == {0, 7, 30}

InitTree ==
    /\ ast \in StatementTrees \cup ExtentTrees
    /\ foundNodes = Idle
    /\ workspaceFiles = <<>>
    /\ functionInfo = NULL
    /\ innerCalls = Idle
    /\ referencedTypes = Idle
    /\ lookups = <<>>
    /\ InitResolver
    /\ InitWebview
    /\ stateVariableNames = Idle

\* The outcome of a traverser query.
Found(query, arguments, value) ==
    [state |-> "returned", query |-> query, arguments |-> arguments,
     value |-> value]

FindAll ==
    \E nodeType \in QueriedTypes :
        /\ foundNodes' = Found("findAll", <<nodeType>>, findAll(ast, nodeType))
        /\ UNCHANGED <<webview, ast, stateVariableNames, workspaceFiles, functionInfo,
                       innerCalls, referencedTypes, contractMap, inheritedBy,
                       inheritanceChains, implementing, implementations,
                       lookups>>

FindFirst ==
    \E nodeType \in QueriedTypes :
        /\ foundNodes' = Found("findFirst", <<nodeType>>,
                               findFirst(ast, nodeType))
        /\ UNCHANGED <<webview, ast, stateVariableNames, workspaceFiles, functionInfo,
                       innerCalls, referencedTypes, contractMap, inheritedBy,
                       inheritanceChains, implementing, implementations,
                       lookups>>

FindAtPosition ==
    \E line \in QueriedLines, column \in QueriedColumns :
        /\ foundNodes' = Found("findAtPosition", <<line, column>>,
                               findAtPosition(ast, line, column))
        /\ UNCHANGED <<webview, ast, stateVariableNames, workspaceFiles, functionInfo,
                       innerCalls, referencedTypes, contractMap, inheritedBy,
                       inheritanceChains, implementing, implementations,
                       lookups>>

NextTree == FindAll \/ FindFirst \/ FindAtPosition

SpecTree == InitTree /\ [][NextTree]_vars

-----------------------------------------------------------------------------
(* Properties of the traverser queries                                     *)

\* Every node of the tree rooted at node, in pre-order.
RECURSIVE PreOrder(_)
PreOrder(node) ==
    LET children == AllChildren(node)
    IN  <<node>> \o Flatten([k \in 1..Len(children) |-> PreOrder(children[k])])

OfType(nodes, nodeType) ==
    LET IsOfType(n) == n.type = nodeType
    IN  SelectSeq(nodes, IsOfType)

Asked(query) == foundNodes.state = "returned" /\ foundNodes.query = query

\* The function definitions of the tree whose span contains the position.
Containing(line, column) ==
    LET Holds(n) == n.loc # NULL /\ Contains(n.loc, line, column)
    IN  SelectSeq(OfType(PreOrder(ast), "FunctionDefinition"), Holds)

LineSpan(loc) == loc.end.line - loc.start.line

ColumnSpan(loc) == loc.end.column - loc.start.column

\* (line span, column span) of a is at most that of b, compared
\* lexicographically.
SpanAtMost(a, b) ==
    \/ LineSpan(a) < LineSpan(b)
    \/ LineSpan(a) = LineSpan(b) /\ ColumnSpan(a) <= ColumnSpan(b)

\* C11: findAtPosition returns a function definition whose span contains
\* the position and whose (line span, column span) is lexicographically
\* the smallest among those that do, and returns null exactly when no
\* function definition contains the position.
C11_SmallestContainingSpan ==
    Asked("findAtPosition") =>
        LET containing == Containing(foundNodes.arguments[1],
                                     foundNodes.arguments[2])
        IN  IF containing = <<>> THEN foundNodes.value = NULL
            ELSE /\ foundNodes.value \in Range(containing)
                 /\ \A n \in Range(containing) :
                       SpanAtMost(foundNodes.value.loc, n.loc)

\* A position that two function definitions contain was asked for.
C11_Witness ==
    /\ Asked("findAtPosition")
    /\ Len(Containing(foundNodes.arguments[1], foundNodes.arguments[2])) > 1

\* C12: findFirst returns the first node of the kind in pre-order, or null
\* when the tree has no node of the kind.
C12_FirstInPreOrder ==
    Asked("findFirst") =>
        LET ofKind == OfType(PreOrder(ast), foundNodes.arguments[1])
        IN  IF ofKind = <<>> THEN foundNodes.value = NULL
            ELSE foundNodes.value = ofKind[1]

\* The kind asked for occurs again after the first match, outside it.
C12_Witness ==
    /\ Asked("findFirst")
    /\ LET ofKind == OfType(PreOrder(ast), foundNodes.arguments[1])
       IN  /\ ofKind # <<>>
           /\ Len(ofKind) > Len(OfType(PreOrder(ofKind[1]),
                                       foundNodes.arguments[1]))

\* C13: findAll returns every node of the kind in the tree, each once and
\* in pre-order.
C13_AllInPreOrder ==
    Asked("findAll") =>
        foundNodes.value = OfType(PreOrder(ast), foundNodes.arguments[1])

\* The kind asked for occurs below an unchecked statement.
C13_Witness ==
    /\ Asked("findAll")
    /\ \E n \in Range(OfType(PreOrder(ast), "UncheckedStatement")) :
          OfType(PreOrder(n), foundNodes.arguments[1]) # <<>>

-----------------------------------------------------------------------------
(* Search order of the resolvers                                           *)

\* What a file of the index holds besides the analysed function.
FileProfiles ==
    {"nothing", "defined", "declared", "overloaded", "twice", "struct",
     "function"}

FilePool == <<"a.sol", "b.sol", "c.sol">>

\* The contracts of a file with a profile: function foo with or without a
\* body, struct or enum Pool.
ProfileContracts(profile, path) ==
    CASE profile = "nothing" -> <<>>
      [] profile = "defined" ->
            <<ContractRec("X", "contract", <<>>, <<Defined("foo", 5, path)>>,
                          <<StructRec("Pool", "X", 3, path)>>, <<>>, <<>>, path)>>
      [] profile = "declared" ->
            <<ContractRec("X", "interface", <<>>, <<Declared("foo", 5, path)>>,
                          <<>>, <<EnumRec("Pool", "X", 3, path)>>, <<>>, path)>>
      [] profile = "overloaded" ->
            <<ContractRec("X", "contract", <<>>,
                          <<Declared("foo", 5, path), Defined("foo", 6, path)>>,
                          <<>>, <<>>, <<>>, path)>>
      [] profile = "twice" ->
            <<ContractRec("X", "contract", <<>>, <<Defined("foo", 5, path)>>,
                          <<>>, <<EnumRec("Pool", "X", 3, path)>>, <<>>, path),
              ContractRec("Y", "contract", <<>>, <<Defined("foo", 15, path)>>,
                          <<StructRec("Pool", "Y", 13, path)>>, <<>>, <<>>, path)>>
      [] profile = "struct" ->
            <<ContractRec("X", "contract", <<>>, <<>>,
                          <<StructRec("Pool", "X", 3, path)>>, <<>>, <<>>, path)>>
      [] profile = "function" ->
            <<ContractRec("X", "contract", <<>>, <<Defined("foo", 5, path)>>,
                          <<>>, <<>>, <<>>, path)>>

\* The index with the files in an order; a.sol holds contract Main with the
\* analysed function before the contracts of its profile.
SearchIndex(fi, profile, order) ==
    [k \in 1..Len(order) |->
        LET path == FilePool[order[k]]
        IN  ParsedFileRec(path,
                (IF path = fi.filePath
                 THEN <<ContractRec("Main", "contract", <<>>, <<fi>>, <<>>,
                                    <<>>, <<>>, path)>>
                 ELSE <<>>) \o ProfileContracts(profile[order[k]], path))]

\* The orders in which the files can have been inserted into the index.
FileOrders ==
    {order \in [DOMAIN FilePool -> DOMAIN FilePool] :
        \A i, j \in DOMAIN FilePool : i # j => order[i] # order[j]}

InitSearch ==
    /\ functionInfo = LookupFunction
    /\ \E profile \in [DOMAIN FilePool -> FileProfiles], order \in FileOrders :
          workspaceFiles = SearchIndex(functionInfo, profile, order)
    /\ innerCalls = Idle
    /\ referencedTypes = Idle
    /\ lookups = <<>>
    /\ InitResolver
    /\ InitWebview
    /\ InitTraverser
    /\ stateVariableNames = Idle

NextSearch == BuildCallGraph \/ ResolveTypes \/ ResolveSingleFunction

SpecSearch == InitSearch /\ [][NextSearch]_vars

\* The places of the index that hold a function called name: file,
\* contract and function position.
FunctionPlaces(name) ==
    {<<i, j, k>> \in (DOMAIN workspaceFiles) \X (1..3) \X (1..3) :
        /\ j \in DOMAIN workspaceFiles[i].contracts
        /\ k \in DOMAIN workspaceFiles[i].contracts[j].functions
        /\ workspaceFiles[i].contracts[j].functions[k].name = name}

FunctionAtPlace(place) ==
    workspaceFiles[place[1]].contracts[place[2]].functions[place[3]]

\* Place a comes no later than place b in file, contract, function order.
PlaceAtMost(a, b) ==
    \/ a[1] < b[1]
    \/ a[1] = b[1] /\ a[2] < b[2]
    \/ a[1] = b[1] /\ a[2] = b[2] /\ a[3] <= b[3]

InOwnFile(place) == workspaceFiles[place[1]].filePath = functionInfo.filePath

\* The resolved function of the call graph's entry for name, in a set.
ResolvedCall(name) ==
    {c.resolvedFunction : c \in {c \in Range(innerCalls.value) : c.name = name}}

\* C15: a call of a function that the current file holds resolves to a
\* function of the current file, whatever the order of the index; a call of
\* a function that only other files hold resolves to the first function of
\* that name in file, contract and function order of the index.
C15_CurrentFileFirst ==
    innerCalls.state = "returned" =>
        LET places == FunctionPlaces("foo")
            own == {p \in places : InOwnFile(p)}
        IN  IF own # {}
            THEN \E p \in own : ResolvedCall("foo") = {FunctionAtPlace(p)}
            ELSE IF places # {}
            THEN \E p \in places :
                    /\ \A q \in places : PlaceAtMost(p, q)
                    /\ ResolvedCall("foo") = {FunctionAtPlace(p)}
            ELSE ResolvedCall("foo") = {}

\* The current file and a file before it in the index both hold foo.
C15_Witness ==
    /\ innerCalls.state = "returned"
    /\ \E p, q \in FunctionPlaces("foo") :
          InOwnFile(p) /\ ~InOwnFile(q) /\ q[1] < p[1]
    /\ ResolvedCall("foo") # {}

\* The files of the index that hold a struct or enum called name, as
\* positions of the index.
TypeFiles(name) ==
    {i \in DOMAIN workspaceFiles :
        \E j \in DOMAIN workspaceFiles[i].contracts :
            LET c == workspaceFiles[i].contracts[j]
            IN  \E d \in Range(c.structs) \cup Range(c.enums) : d.name = name}

\* The files of the definitions returned for name.
ResolvedTypeFiles(name) ==
    {r.definition.filePath :
        r \in {r \in Range(referencedTypes.value) : r.name = name}}

\* C14: a candidate that the function's own file defines resolves to the
\* definition of that file, whatever the order of the index; a candidate
\* that only other files define resolves to the definition of the first
\* such file of the index.
C14_OwnFileFirst ==
    referencedTypes.state = "returned" =>
        LET holders == TypeFiles("Pool")
            own == {i \in holders :
                       workspaceFiles[i].filePath = functionInfo.filePath}
        IN  IF own # {}
            THEN ResolvedTypeFiles("Pool") = {functionInfo.filePath}
            ELSE IF holders # {}
            THEN \E i \in holders :
                    /\ \A j \in holders : i <= j
                    /\ ResolvedTypeFiles("Pool") = {workspaceFiles[i].filePath}
            ELSE ResolvedTypeFiles("Pool") = {}

\* The own file and a file before it in the index both define Pool.
C14_Witness ==
    /\ referencedTypes.state = "returned"
    /\ \E i, j \in TypeFiles("Pool") :
          /\ workspaceFiles[i].filePath = functionInfo.filePath
          /\ j < i
    /\ ResolvedTypeFiles("Pool") # {}

\* C17: every resolved function of the call graph and every function that
\* resolveSingleFunction returns has a body that is not empty.
C17_ResolvedHaveBodies ==
    /\ innerCalls.state = "returned" =>
          \A c \in Range(innerCalls.value) : trim(c.resolvedFunction.body) # ""
    /\ \A k \in DOMAIN lookups :
          (lookups[k].lookup = "resolveSingleFunction"
              /\ lookups[k].result # NULL)
          => trim(lookups[k].result.body) # ""

-----------------------------------------------------------------------------
(* Implementations among overloads: the three contracts on acyclic base    *)
(* declarations, where a contract can also declare m without a body, or    *)
(* declare m without a body and then with one.                             *)

OverloadProfiles ==
    {"interface", "implements", "plain", "declares", "overloaded"}

OverloadDeclarations == SUBSET {<<"B", "A">>, <<"C", "A">>, <<"C", "B">>}

InitOverload ==
    /\ \E profile \in [Range(ContractPool) -> OverloadProfiles],
          edges \in OverloadDeclarations :
          workspaceFiles = InheritanceIndex(profile, edges)
    /\ functionInfo = NULL
    /\ innerCalls = Idle
    /\ referencedTypes = Idle
    /\ lookups = <<>>
    /\ InitResolver
    /\ InitWebview
    /\ InitTraverser
    /\ stateVariableNames = Idle

NextOverload == BuildInheritanceGraph \/ FindImplementations

SpecOverload == InitOverload /\ [][NextOverload]_vars

\* The functions of the contract called name that are called methodName
\* and have a body.
ImplementationsIn(name, methodName) ==
    IF name \notin ContractNames \/ ContractNamed(name).kind = "interface"
    THEN {}
    ELSE {f \in Range(ContractNamed(name).functions) :
             f.name = methodName /\ trim(f.body) # ""}

\* The entries of the result that were found for the contract called x.
EntriesFor(x) ==
    {impl \in Range(implementations.value) : impl.inheritanceChain[1] = x}

\* C16: on the built graph findImplementations(I, m) has, for each
\* non-interface contract X that transitively inherits from I, one entry
\* with a function of the first contract of X's chain that is no interface
\* and declares a function m with a body, and no entry for X when the chain
\* has no such contract.
C16_FirstImplementationOfChain ==
    (implementations.state = "returned" /\ implementations.graphBuilt) =>
        \A x \in TransitiveInheritors(implementations.arguments[1]) :
            ContractNamed(x).kind # "interface" =>
                LET chain == MapGet(inheritanceChains, x)
                    holders == SelectSeq(chain, LAMBDA name :
                                   ImplementationsIn(name, "m") # {})
                IN  IF holders = <<>> THEN EntriesFor(x) = {}
                    ELSE \E impl \in EntriesFor(x) :
                            /\ EntriesFor(x) = {impl}
                            /\ impl.contractName = holders[1]
                            /\ impl.functionInfo
                                   \in ImplementationsIn(holders[1], "m")

-----------------------------------------------------------------------------
(* StateVariableResolver: the state variables a function refers to         *)

\* [a-zA-Z_]
IdentifierStart == LowerChars \cup UpperChars \cup {"_"}

\* The positions where a match of \b([a-zA-Z_][a-zA-Z0-9_]*)\b can start: an
\* identifier start that no word character precedes.
IdentifierStarts(s) ==
    {j \in 1..Len(s) :
        Char(s, j) \in IdentifierStart /\ Char(s, j - 1) \notin WordChars}

\* The while ((match = identifierPattern.exec(source)) !== null) loop from
\* lastIndex i - 1, with the Set stateVarNames so far.
RECURSIVE collectReferences(_, _, _, _, _)
collectReferences(source, starts, i, contractStateVars, stateVarNames) ==
    LET later == {j \in starts : j >= i}
        first == CHOOSE j \in later : \A k \in later : j <= k
        end == RunEnd(source, first, WordChars)
        identifier == SubSeq(source, first, end - 1)
    IN  IF later = {} THEN stateVarNames
        ELSE collectReferences(source, starts, end, contractStateVars,
                 IF identifier \in contractStateVars
                 THEN SetAdd(stateVarNames, identifier)
                 ELSE stateVarNames)

extractStateVariableReferences(fi, currentContract) ==
    collectReferences(fi.fullSource, IdentifierStarts(fi.fullSource), 1,
        {currentContract.stateVariables[k].name :
            k \in 1..Len(currentContract.stateVariables)},
        <<>>)

\* The first contract of the index that holds the function, or null.
findContractForFunction(fi, files) ==
    LET contracts == Flatten([k \in 1..Len(files) |-> files[k].contracts])
        holders == SelectSeq(contracts, LAMBDA c :
                       \E f \in Range(c.functions) :
                           /\ f.name = fi.name
                           /\ f.filePath = fi.filePath
                           /\ f.startLine = fi.startLine)
    IN  IF holders = <<>> THEN NULL ELSE Head(holders)

-----------------------------------------------------------------------------
(* Analyses and lookups over one index                                     *)

\* The analysed function: it assigns the state variable total.
FrameFunction ==
    AnalysedFunction(<<ParameterRec("p", "Pool", "memory")>>, <<>>,
                     "total = foo(x);\n")

InitFrame ==
    /\ functionInfo = FrameFunction
    /\ \E mainDefines \in BOOLEAN, libDefines \in BOOLEAN, mainFirst \in BOOLEAN :
          workspaceFiles = LookupIndex(functionInfo, mainDefines, libDefines,
                                       mainFirst)
    /\ innerCalls = Idle
    /\ referencedTypes = Idle
    /\ lookups = <<>>
    /\ InitResolver
    /\ InitWebview
    /\ InitTraverser
    /\ stateVariableNames = Idle

\* extractStateVariableReferences that consumes the source it scans.
ExtractStateVariableReferencesConsuming ==
    /\ stateVariableNames.state = "idle"
    /\ stateVariableNames' =
           Returned(extractStateVariableReferences(functionInfo,
               findContractForFunction(functionInfo, workspaceFiles)))
    /\ functionInfo' = [functionInfo EXCEPT !.fullSource = ""]
    /\ UNCHANGED <<webview, ast, foundNodes, workspaceFiles, innerCalls,
                   referencedTypes, contractMap, inheritedBy,
                   inheritanceChains, implementing, implementations, lookups>>

ExtractStateVariableReferences ==
    /\ stateVariableNames.state = "idle"
    /\ stateVariableNames' =
           Returned(extractStateVariableReferences(functionInfo,
               findContractForFunction(functionInfo, workspaceFiles)))
    /\ UNCHANGED <<webview, ast, foundNodes, workspaceFiles, functionInfo, innerCalls,
                   referencedTypes, contractMap, inheritedBy,
                   inheritanceChains, implementing, implementations, lookups>>

NextFrame ==
    \/ ResolveTypes
    \/ BuildCallGraph
    \/ ExtractStateVariableReferences
    \/ ResolveStateVariable
    \/ ResolveSingleType
    \/ ResolveSingleFunction

SpecFrame == InitFrame /\ [][NextFrame]_vars

\* C18: resolveTypes, buildCallGraph, extractStateVariableReferences,
\* resolveStateVariable and the single-symbol lookups leave the index and
\* the analysed function as they are.
C18_IndexAndFunctionUnchanged ==
    [][workspaceFiles' = workspaceFiles /\ functionInfo' = functionInfo]_vars

\* The three analyses have run and MaxLookups lookups were made, one of them
\* a state variable lookup, and the function refers to a state variable.
C18_Witness ==
    /\ innerCalls.state = "returned"
    /\ referencedTypes.state = "returned"
    /\ stateVariableNames.state = "returned"
    /\ stateVariableNames.value = <<"total">>
    /\ Len(lookups) = MaxLookups
    /\ \E k \in DOMAIN lookups : lookups[k].lookup = "resolveStateVariable"

-----------------------------------------------------------------------------
(* Linearized chains: four contracts, A in a.sol, B, C and D in b.sol, with *)
(* up to MaxEdges base declarations among them and the name X that no      *)
(* contract of the index has, cycles and self-references included.         *)

MaxEdges == 4

ChainPool == <<"A", "B", "C", "D">>

ChainBases == <<"A", "B", "C", "D", "X">>

ChainDeclarations ==
    {edges \in SUBSET (Range(ChainPool) \X Range(ChainBases)) :
        Cardinality(edges) <= MaxEdges}

ChainContract(name, edges, path) ==
    ContractRec(name, "contract",
                SelectSeq(ChainBases, LAMBDA b : <<name, b>> \in edges),
                <<>>, <<>>, <<>>, <<>>, path)

ChainIndex(edges) ==
    <<ParsedFileRec("a.sol", <<ChainContract("A", edges, "a.sol")>>),
      ParsedFileRec("b.sol", <<ChainContract("B", edges, "b.sol"),
                               ChainContract("C", edges, "b.sol"),
                               ChainContract("D", edges, "b.sol")>>)>>

InitChain ==
    /\ \E edges \in ChainDeclarations : workspaceFiles = ChainIndex(edges)
    /\ functionInfo = NULL
    /\ innerCalls = Idle
    /\ referencedTypes = Idle
    /\ lookups = <<>>
    /\ InitResolver
    /\ InitWebview
    /\ InitTraverser
    /\ stateVariableNames = Idle

NextChain == BuildInheritanceGraph

SpecChain == InitChain /\ [][NextChain]_vars

\* buildInheritanceGraph has run: its first pass filled the contract map.
GraphRequested == contractMap # <<>>

\* The names that the contract called name declares as bases, none when the
\* index has no such contract.
BasesOf(name) ==
    UNION {Range(c.baseContracts) : c \in {c \in Range(AllContracts) : c.name = name}}

\* The names reached from name over at most n base declarations.
RECURSIVE ReachedWithin(_, _)
ReachedWithin(name, n) ==
    IF n = 0 THEN {name}
    ELSE LET nearer == ReachedWithin(name, n - 1)
         IN  nearer \cup UNION {BasesOf(x) : x \in nearer}

Reached(name) == ReachedWithin(name, Len(ChainBases))

\* C19: buildInheritanceGraph ends on every index, cyclic base declarations
\* included, with a chain for every contract of the index; the chain of a
\* contract on a cycle is cut short, at most as long as there are names.
C19_ChainForEveryContract ==
    GraphRequested =>
        \A name \in ContractNames :
            /\ MapHas(inheritanceChains, name)
            /\ Len(MapGet(inheritanceChains, name)) \in 1..Len(ChainBases)

\* The graph was built over cyclic base declarations.
C19_Witness ==
    /\ GraphRequested
    /\ inheritanceChains # <<>>
    /\ \E name \in ContractNames :
          \E b \in BasesOf(name) : name \in Reached(b) /\ b # name

\* C20: the chain of every contract starts with the contract, holds no name
\* twice and holds the contract and the names reached from it over base
\* declarations, names without a contract included, and no other name.
C20_ChainIsReachableNames ==
    GraphRequested =>
        \A name \in ContractNames :
            MapHas(inheritanceChains, name) =>
                LET chain == MapGet(inheritanceChains, name)
                IN  /\ chain # <<>>
                    /\ chain[1] = name
                    /\ \A i, j \in DOMAIN chain : chain[i] = chain[j] => i = j
                    /\ Range(chain) = Reached(name)

\* The chain of a contract that reaches a name over two paths, and the
\* chain of a contract on a cycle that declares the unknown X.
C20_Witness ==
    /\ GraphRequested
    /\ \E name \in ContractNames :
          \E a, b \in BasesOf(name) :
              a # b /\ Reached(a) \cap Reached(b) # {}
                    /\ MapHas(inheritanceChains, name)
    /\ \E name \in ContractNames :
          /\ "X" \in Reached(name)
          /\ \E b \in BasesOf(name) : name \in Reached(b)

\* The position of name in the chain.
PlaceIn(chain, name) == CHOOSE i \in DOMAIN chain : chain[i] = name

\* No contract of the index reaches itself over base declarations.
AcyclicDeclarations ==
    \A name \in ContractNames : \A b \in BasesOf(name) : name \notin Reached(b)

\* C21: in every chain of an acyclic graph each contract stands before each
\* of its declared bases.
C21_DerivedBeforeBases ==
    (GraphRequested /\ AcyclicDeclarations) =>
        \A name \in ContractNames :
            LET chain == MapGet(inheritanceChains, name)
            IN  \A x \in Range(chain) : \A b \in BasesOf(x) :
                    PlaceIn(chain, x) < PlaceIn(chain, b)

-----------------------------------------------------------------------------
(* ASTTraverser.traverse: the order of the callbacks                       *)

\* The children that traverseChildren passes to traverse, in order, each as
\* the place <<p, i>> of the node: the i-th node of the p-th property.
PlacesOfKey(node, key) ==
    Flatten([p \in 1..Len(node.props) |->
                IF node.props[p].key = key
                THEN [i \in 1..Len(node.props[p].nodes) |-> <<p, i>>]
                ELSE <<>>])

PlacesVisited(node) ==
    IF node.type \in LeafTypes THEN <<>>
    ELSE IF node.type \in DOMAIN CaseKeys
    THEN Flatten([k \in 1..Len(CaseKeys[node.type]) |->
                     PlacesOfKey(node, CaseKeys[node.type][k])])
    ELSE Flatten([p \in 1..Len(node.props) |->
                     [i \in 1..Len(node.props[p].nodes) |-> <<p, i>>]])

NodeAtPlace(node, place) == node.props[place[1]].nodes[place[2]]

\* traverse that gives up the whole traversal at the first stop signal.
RECURSIVE traverseCallsAborting(_, _, _, _)
traverseCallsAborting(node, path, nodeType, stops) ==
    LET places == PlacesVisited(node)
        below == Flatten([k \in 1..Len(places) |->
                     traverseCallsAborting(NodeAtPlace(node, places[k]),
                                           Append(path, places[k]), nodeType,
                                           stops)])
        calls == IF node.type = nodeType THEN <<path>> \o below ELSE below
    IN  IF stops /\ calls # <<>> THEN <<calls[1]>> ELSE calls

\* traverse with a visitor for nodeType whose callback returns stops: the
\* calls of the callback in order, each as the path of places from the
\* root to the node it is called with.
RECURSIVE traverseCalls(_, _, _, _)
traverseCalls(node, path, nodeType, stops) ==
    LET places == PlacesVisited(node)
        below == Flatten([k \in 1..Len(places) |->
                     traverseCalls(NodeAtPlace(node, places[k]),
                                   Append(path, places[k]), nodeType, stops)])
    IN  IF node.type # nodeType THEN below
        ELSE IF stops THEN <<path>>
        ELSE <<path>> \o below

Traverse ==
    \E nodeType \in QueriedTypes, stops \in BOOLEAN :
        /\ foundNodes' = Found("traverse", <<nodeType, stops>>,
                               traverseCalls(ast, <<>>, nodeType, stops))
        /\ UNCHANGED <<webview, ast, stateVariableNames, workspaceFiles, functionInfo,
                       innerCalls, referencedTypes, contractMap, inheritedBy,
                       inheritanceChains, implementing, implementations,
                       lookups>>

NextVisit == Traverse \/ FindAll \/ FindFirst

SpecVisit == InitTree /\ [][NextVisit]_vars

\* Path a leads to an ancestor of the node of path b.
AncestorPath(a, b) == Len(a) < Len(b) /\ SubSeq(b, 1, Len(a)) = a

\* The calls that the same traversal makes when no callback stops.
CallsUnstopped == traverseCalls(ast, <<>>, foundNodes.arguments[1], FALSE)

\* C22: the callback of a node is called before those of its descendants;
\* when the callbacks return the stop signal, no descendant of a node whose
\* callback was called gets a call, and every other node that gets a call
\* without the stop signal still gets it.
C22_StopIsLocalToSubtree ==
    Asked("traverse") =>
        LET calls == foundNodes.value
            stops == foundNodes.arguments[2]
        IN  /\ \A i, j \in DOMAIN calls :
                   i < j => calls[i] # calls[j] /\ ~AncestorPath(calls[j], calls[i])
            /\ stops =>
                   /\ \A i, j \in DOMAIN calls : ~AncestorPath(calls[i], calls[j])
                   /\ \A p \in Range(CallsUnstopped) :
                          (\A q \in Range(CallsUnstopped) : ~AncestorPath(q, p))
                              => p \in Range(calls)

\* A callback stopped at a node that has a descendant of the type, and a
\* node outside its subtree was called after it.
C22_Witness ==
    /\ Asked("traverse")
    /\ foundNodes.arguments[2]
    /\ Len(foundNodes.value) > 1
    /\ \E p \in Range(CallsUnstopped) : AncestorPath(foundNodes.value[1], p)

-----------------------------------------------------------------------------
(* State variable references: the function run of contract Main, which is  *)
(* Base, with up to MaxStatements statements that name total or count as a *)
(* variable, a member, a local, in a comment or in a string.               *)

ReferenceStatements ==
    {"total = 1;", "x.count = total_;", "uint256 total = 2;",
     "// count total", "emit Log('total');", "/* count */ y = 0x1count;",
     "count++;"}

ReferenceParameters ==
    {<<>>, <<ParameterRec("total", "uint256", "")>>}

\* The index: Main declares the state variables called mainNames, its base
\* declares those called baseNames.
ReferenceIndex(fi, mainNames, baseNames) ==
    LET Variables(names, contract) ==
            SelectSeq(<<StateVariableRec("total", "uint256", contract, 3, "a.sol"),
                        StateVariableRec("count", "uint256", contract, 4, "a.sol")>>,
                      LAMBDA sv : sv.name \in names)
    IN  <<ParsedFileRec("a.sol",
              <<ContractRec("Base", "contract", <<>>, <<>>, <<>>, <<>>,
                            Variables(baseNames, "Base"), "a.sol"),
                ContractRec("Main", "contract", <<"Base">>, <<fi>>, <<>>, <<>>,
                            Variables(mainNames, "Main"), "a.sol")>>)>>

InitReferences ==
    /\ \E body \in Bodies(ReferenceStatements, {"\n"}, MaxStatements),
          parameters \in ReferenceParameters :
          functionInfo = AnalysedFunction(parameters, <<>>, body)
    /\ \E mainNames \in SUBSET {"total", "count"},
          baseNames \in {{}, {"count"}} :
          workspaceFiles = ReferenceIndex(functionInfo, mainNames, baseNames)
    /\ innerCalls = Idle
    /\ referencedTypes = Idle
    /\ lookups = <<>>
    /\ InitResolver
    /\ InitWebview
    /\ InitTraverser
    /\ stateVariableNames = Idle

NextReferences == ExtractStateVariableReferences

SpecReferences == InitReferences /\ [][NextReferences]_vars

\* The position of the first */ at or after i, Len(s) + 1 if none.
CommentEnd(s, i) ==
    LET ends == {j \in i..Len(s) : HasAt(s, j, "*/")}
    IN  IF ends = {} THEN Len(s) + 1
        ELSE (CHOOSE j \in ends : \A k \in ends : j <= k) + 2

\* The positions where a token, a comment or a string literal can start.
TokenStarts(s) ==
    {j \in 1..Len(s) :
        \/ Char(s, j) \in WordChars \cup {"$", "'", "\""}
        \/ HasAt(s, j, "//")
        \/ HasAt(s, j, "/*")}

\* The identifier tokens of a Solidity source text from position i on:
\* comments, string literals and number literals hold none.
RECURSIVE IdentifierTokensFrom(_, _, _)
IdentifierTokensFrom(s, starts, i) ==
    LET later == {j \in starts : j >= i}
        first == CHOOSE j \in later : \A k \in later : j <= k
        c == Char(s, first)
        wordEnd == RunEnd(s, first, WordChars \cup {"$"})
    IN  IF later = {} THEN {}
        ELSE IF HasAt(s, first, "//")
        THEN IdentifierTokensFrom(s, starts, RunEndNot(s, first, "\n"))
        ELSE IF HasAt(s, first, "/*")
        THEN IdentifierTokensFrom(s, starts, CommentEnd(s, first + 2))
        ELSE IF c \in {"'", "\""}
        THEN IdentifierTokensFrom(s, starts, RunEndNot(s, first + 1, c) + 1)
        ELSE IF c \in DigitChars
        THEN IdentifierTokensFrom(s, starts, wordEnd)
        ELSE {SubSeq(s, first, wordEnd - 1)}
                 \cup IdentifierTokensFrom(s, starts, wordEnd)

IdentifierTokens(s) == IdentifierTokensFrom(s, TokenStarts(s), 1)

\* The names of the state variables that the contract of the analysed
\* function declares itself.
DeclaredInOwnContract ==
    LET c == findContractForFunction(functionInfo, workspaceFiles)
    IN  {c.stateVariables[k].name : k \in DOMAIN c.stateVariables}

\* C23: extractStateVariableReferences returns the names that the contract
\* declares as state variables and that are identifier tokens of the full
\* source of the function, and no other name.
C23_DeclaredAndReferenced ==
    stateVariableNames.state = "returned" =>
        Range(stateVariableNames.value) =
            DeclaredInOwnContract \cap IdentifierTokens(functionInfo.fullSource)

-----------------------------------------------------------------------------
(* State variable lookups: two files, each with up to two contracts called *)
(* Main or Lib that declare total or not, in both insertion orders.        *)

VariableContracts == {<<"Main", TRUE>>, <<"Lib", TRUE>>, <<"Lib", FALSE>>}

VariableFile(path, contracts) ==
    ParsedFileRec(path,
        [j \in 1..Len(contracts) |->
            ContractRec(contracts[j][1], "contract", <<>>, <<>>, <<>>, <<>>,
                IF contracts[j][2]
                THEN <<StateVariableRec("total", "uint256", contracts[j][1],
                                        10 * j, path)>>
                ELSE <<>>,
                path)])

InitVariable ==
    /\ \E a \in SeqsUpTo(VariableContracts, 2),
          b \in SeqsUpTo(VariableContracts, 2), aFirst \in BOOLEAN :
          workspaceFiles =
              IF aFirst
              THEN <<VariableFile("a.sol", a), VariableFile("b.sol", b)>>
              ELSE <<VariableFile("b.sol", b), VariableFile("a.sol", a)>>
    /\ functionInfo = NULL
    /\ innerCalls = Idle
    /\ referencedTypes = Idle
    /\ lookups = <<>>
    /\ InitResolver
    /\ InitWebview
    /\ InitTraverser
    /\ stateVariableNames = Idle

NextVariable == ResolveStateVariable

SpecVariable == InitVariable /\ [][NextVariable]_vars

\* The places of the index that declare a state variable called name:
\* file, contract and variable position.
VariablePlaces(name) ==
    {<<i, j, k>> \in (DOMAIN workspaceFiles) \X (1..2) \X (1..2) :
        /\ j \in DOMAIN workspaceFiles[i].contracts
        /\ k \in DOMAIN workspaceFiles[i].contracts[j].stateVariables
        /\ workspaceFiles[i].contracts[j].stateVariables[k].name = name}

VariableAtPlace(place) ==
    workspaceFiles[place[1]].contracts[place[2]].stateVariables[place[3]]

\* The places of the contracts called hint.
HintedPlaces(name, hint) ==
    {p \in VariablePlaces(name) :
        workspaceFiles[p[1]].contracts[p[2]].name = hint}

\* The declaration at the first of the places.
FirstAtPlaces(places) ==
    VariableAtPlace(CHOOSE p \in places : \A q \in places : PlaceAtMost(p, q))

\* C24: resolveStateVariable(name, hint, index) returns the declaration of
\* the first contract called hint that declares name when a hint is given
\* and there is one, otherwise the first declaration of name of the index,
\* or null when the index has none.
C24_HintedContractFirst ==
    \A n \in DOMAIN lookups :
        lookups[n].lookup = "resolveStateVariable" =>
            LET all == VariablePlaces(lookups[n].name)
                hinted == HintedPlaces(lookups[n].name, lookups[n].contract)
            IN  IF lookups[n].contract # "" /\ hinted # {}
                THEN lookups[n].result = FirstAtPlaces(hinted)
                ELSE IF all # {} THEN lookups[n].result = FirstAtPlaces(all)
                ELSE lookups[n].result = NULL

\* A lookup with the hint Lib, where a contract called Main declares total
\* before the first Lib that declares it.
C24_Witness ==
    \E n \in DOMAIN lookups :
        /\ lookups[n].lookup = "resolveStateVariable"
        /\ lookups[n].contract = "Lib"
        /\ \E p \in HintedPlaces("total", "Lib") :
              \E q \in VariablePlaces("total") :
                  q \notin HintedPlaces("total", "Lib") /\ PlaceAtMost(q, p)

-----------------------------------------------------------------------------
(* Colliding contract names: a.sol and b.sol each declare a contract A     *)
(* with a base list of its own, b.sol also B, c.sol C, in every insertion  *)
(* order of the files.                                                     *)

BaseLists == {<<>>, <<"B">>, <<"C">>, <<"B", "C">>}

PlainContract(name, baseContracts, path) ==
    ContractRec(name, "contract", baseContracts, <<>>, <<>>, <<>>, <<>>, path)

CollisionFiles(basesA1, basesA2, basesB) ==
    <<ParsedFileRec("a.sol", <<PlainContract("A", basesA1, "a.sol")>>),
      ParsedFileRec("b.sol", <<PlainContract("A", basesA2, "b.sol"),
                               PlainContract("B", basesB, "b.sol")>>),
      ParsedFileRec("c.sol", <<PlainContract("C", <<>>, "c.sol")>>)>>

InitCollision ==
    /\ \E basesA1 \in BaseLists, basesA2 \in BaseLists,
          basesB \in {<<>>, <<"C">>, <<"A">>}, order \in FileOrders :
          workspaceFiles =
              [k \in 1..3 |-> CollisionFiles(basesA1, basesA2, basesB)[order[k]]]
    /\ functionInfo = NULL
    /\ innerCalls = Idle
    /\ referencedTypes = Idle
    /\ lookups = <<>>
    /\ InitResolver
    /\ InitWebview
    /\ InitTraverser
    /\ stateVariableNames = Idle

NextCollision == BuildInheritanceGraph

SpecCollision == InitCollision /\ [][NextCollision]_vars

\* The contract called name of the file that is last in the index among
\* the files that declare one.
LastDeclared(name) ==
    LET named == SelectSeq(AllContracts, LAMBDA c : c.name = name)
    IN  named[Len(named)]

\* The names reached from name over at most n base declarations of the
\* contracts that are last declared.
RECURSIVE ReachedOverLastWithin(_, _)
ReachedOverLastWithin(name, n) ==
    IF n = 0 THEN {name}
    ELSE LET nearer == ReachedOverLastWithin(name, n - 1)
         IN  nearer \cup UNION {Range(LastDeclared(x).baseContracts) :
                                   x \in nearer \cap ContractNames}

\* C25: after buildInheritanceGraph getContract gives, for every name, the
\* contract of the file that is last in the index; the inheritors of a name
\* are the names whose last declared contract has it as a base, and the
\* chain of a name holds what its last declared contract reaches.
C25_LastDeclarationWins ==
    GraphRequested =>
        /\ \A name \in ContractNames : getContract(name) = LastDeclared(name)
        /\ \A b \in ContractNames :
               LET inheritors == {n \in ContractNames :
                                     b \in Range(LastDeclared(n).baseContracts)}
               IN  IF inheritors = {} THEN ~MapHas(inheritedBy, b)
                   ELSE Range(MapGet(inheritedBy, b)) = inheritors
        /\ \A name \in ContractNames :
               LET chain == MapGet(inheritanceChains, name)
               IN  /\ chain[1] = name
                   /\ Range(chain) =
                          ReachedOverLastWithin(name, Cardinality(ContractNames))

\* The graph was built over two contracts A with different base lists.
C25_Witness ==
    /\ GraphRequested
    /\ inheritanceChains # <<>>
    /\ \E c \in Range(AllContracts) :
          /\ c.name = "A"
          /\ c.baseContracts # LastDeclared("A").baseContracts
          /\ c.baseContracts # <<>>

-----------------------------------------------------------------------------
(* One entry per line and call expression                                  *)

\* The (line, expression) pairs of the entries of a call graph.
EntryKeys(calls) == {<<calls[k].line, calls[k].expression>> : k \in DOMAIN calls}

\* The analysed function cut down to line n of its source.
OnlyLine(n) ==
    [functionInfo EXCEPT !.fullSource = SourceLines[n],
                         !.startLine = functionInfo.startLine + n - 1]

\* C26: the call graph has at most one entry per line and call expression,
\* and the entries of a line are those that the line gives on its own, so
\* that a call on two lines has an entry for each.
C26_OneEntryPerLineAndExpression ==
    innerCalls.state = "returned" =>
        LET calls == innerCalls.value
        IN  /\ \A i, j \in DOMAIN calls :
                   (calls[i].line = calls[j].line
                       /\ calls[i].expression = calls[j].expression) => i = j
            /\ EntryKeys(calls) =
                   UNION {EntryKeys(buildCallGraph(OnlyLine(n), CurrentFile,
                                                   workspaceFiles)) :
                             n \in DOMAIN SourceLines}

\* _bar, which the bare and the underscore pattern both match, is called
\* twice on one line and has its entry.
C26_Witness ==
    /\ innerCalls.state = "returned"
    /\ \E n \in DOMAIN SourceLines :
          /\ Includes(SourceLines[n], "_bar(y); _bar(y);")
          /\ \E c \in Range(innerCalls.value) : c.expression = "_bar"

-----------------------------------------------------------------------------
(* Rebuilding the inheritance graph: the resolver is handed one index      *)
(* after another.                                                          *)

\* findContractsWithMethod; an undefined paramCount is -1.
findContractsWithMethod(methodName, paramCount) ==
    Flatten([k \in 1..Len(contractMap) |->
        LET name == contractMap[k].key
            contract == contractMap[k].value
            implemented == SelectSeq(contract.functions, LAMBDA func :
                               /\ func.name = methodName
                               /\ (paramCount = -1
                                      \/ Len(func.parameters) = paramCount)
                               /\ trim(func.body) # "")
        IN  IF contract.kind = "interface" THEN <<>>
            ELSE [i \in 1..Len(implemented) |->
                     [contractName |-> name,
                      contractKind |-> contract.kind,
                      functionInfo |-> implemented[i],
                      filePath |-> contract.filePath,
                      isInherited |-> FALSE,
                      inheritanceChain |->
                          IF MapHas(inheritanceChains, name)
                          THEN MapGet(inheritanceChains, name)
                          ELSE <<name>>]]])

\* The indexes handed to the resolver: A, B and C in two assignments of
\* interface, implementation and plain contract, on acyclic base
\* declarations.
RebuildProfiles ==
    {[A |-> "interface", B |-> "implements", C |-> "plain"],
     [A |-> "implements", B |-> "plain", C |-> "overloaded"]}

RebuildIndexes ==
    {InheritanceIndex(profile, edges) :
        profile \in RebuildProfiles, edges \in OverloadDeclarations}

InitRebuild ==
    /\ workspaceFiles \in RebuildIndexes
    /\ functionInfo = NULL
    /\ innerCalls = Idle
    /\ referencedTypes = Idle
    /\ lookups = <<>>
    /\ InitResolver
    /\ InitWebview
    /\ InitTraverser
    /\ stateVariableNames = Idle

\* The index was rebuilt, and buildInheritanceGraph is called with it.
BuildFromNewIndex ==
    /\ \E index \in RebuildIndexes :
          /\ workspaceFiles' = index
          /\ buildInheritanceGraph(index)
    /\ UNCHANGED <<webview, ast, foundNodes, stateVariableNames, functionInfo,
                   innerCalls, referencedTypes, implementing,
                   implementations, lookups>>

FindContractsWithMethod ==
    /\ lookups = <<>>
    /\ \E paramCount \in {-1, 0} :
          lookups' = <<Lookup("findContractsWithMethod", "m", "",
                              findContractsWithMethod("m", paramCount))>>
    /\ UNCHANGED <<webview, ast, foundNodes, stateVariableNames, workspaceFiles,
                   functionInfo, innerCalls, referencedTypes,
                   contractMap, inheritedBy, inheritanceChains, implementing,
                   implementations>>

GetContract ==
    /\ lookups = <<>>
    /\ \E name \in Range(ContractPool) :
          lookups' = <<Lookup("getContract", name, "",
                              [has |-> hasContract(name),
                               contract |-> getContract(name)])>>
    /\ UNCHANGED <<webview, ast, foundNodes, stateVariableNames, workspaceFiles,
                   functionInfo, innerCalls, referencedTypes,
                   contractMap, inheritedBy, inheritanceChains, implementing,
                   implementations>>

NextRebuild ==
    \/ BuildInheritanceGraph
    \/ BuildFromNewIndex
    \/ FindContractsWithMethod
    \/ GetContract
    \/ FindImplementations

SpecRebuild == InitRebuild /\ [][NextRebuild]_vars

\* No buildInheritanceGraph has run.
NeverBuilt == contractMap = <<>> /\ inheritedBy = <<>> /\ inheritanceChains = <<>>

\* The maps of a resolver that was built once, from the index.
FreshContractMap == collectContracts(AllContracts, <<>>)

FreshInheritedBy == collectInheritedBy(FreshContractMap, <<>>)

FreshChains == computeChains(FreshContractMap)

-----------------------------------------------------------------------------
(* The webview of the diagram: the ImportManager, the ArrowManager and the *)
(* messages between the webview and the extension.                         *)

\* The variables of the analysis, which the webview does not touch.
analysis == <<workspaceFiles, functionInfo, innerCalls, referencedTypes,
              contractMap, inheritedBy, inheritanceChains, implementing,
              implementations, lookups, ast, foundNodes, stateVariableNames>>

\* Map.prototype.delete
MapDelete(map, key) == SelectSeq(map, LAMBDA e : e.key # key)

\* Array.prototype.join
RECURSIVE Join(_, _)
Join(parts, sep) ==
    IF parts = <<>> THEN ""
    ELSE IF Len(parts) = 1 THEN Head(parts)
    ELSE Head(parts) \o sep \o Join(Tail(parts), sep)

\* blockId.split('-').slice(1).join('-')
BlockName(blockId) == Join(Tail(Split(blockId, "-")), "-")

\* ArrowData
ArrowRec(sourceBlockId, sourceLine, targetBlockId, type) ==
    [id |-> sourceBlockId \o ":" \o targetBlockId,
     sourceBlockId |-> sourceBlockId, sourceLine |-> sourceLine,
     targetBlockId |-> targetBlockId, type |-> type]

\* CodeBlockData
CodeBlockRec(id, category) == [id |-> id, category |-> category]

\* ArrowManager.addArrow
addArrow(held, arrowDef) ==
    LET exists == \E k \in 1..Len(held) :
                     /\ held[k].sourceBlockId = arrowDef.sourceBlockId
                     /\ held[k].targetBlockId = arrowDef.targetBlockId
                     /\ held[k].sourceLine = arrowDef.sourceLine
    IN  IF ~exists THEN Append(held, arrowDef) ELSE held

RECURSIVE addArrows(_, _)
addArrows(held, arrowDefs) ==
    IF arrowDefs = <<>> THEN held
    ELSE addArrows(addArrow(held, Head(arrowDefs)), Tail(arrowDefs))

\* ArrowManager.removeArrowsForBlock
removeArrowsForBlock(held, blockId) ==
    SelectSeq(held, LAMBDA a :
        a.sourceBlockId # blockId /\ a.targetBlockId # blockId)

\* The block of the function the diagram was opened for, of class
\* block-main.
MainBlock == "main"

\* An importable token of a displayed block, by its data attributes.
TokenRec(name, importable, line, block) ==
    [name |-> name, importable |-> importable, line |-> line, block |-> block]

\* The names the displayed code refers to: two functions and a struct.
ImportableNames ==
    {[name |-> "get", importable |-> "function"],
     [name |-> "getUser", importable |-> "function"],
     [name |-> "User", importable |-> "type"]}

\* The importable tokens of the blocks on display: the code of every block
\* may refer to every name.
Tokens ==
    {TokenRec(n.name, n.importable, 1, block) :
        n \in ImportableNames, block \in displayedBlocks}

\* Most messages that are under way at a time.
MaxPosted == 3

UnderWay == Len(postedMessages) + Len(importResponses)

\* requestImport(token)
requestImport(token) ==
    LET name == token.name
        importType == token.importable
        targetId == IF importType = "function" THEN "function-" \o name
                    ELSE "struct-" \o name
        pendingKey == importType \o "-" \o name
    IN  IF targetId \in displayedBlocks \/ ("enum-" \o name) \in displayedBlocks
        THEN UNCHANGED <<pendingImports, postedMessages>>
        ELSE IF MapHas(pendingImports, pendingKey)
        THEN UNCHANGED <<pendingImports, postedMessages>>
        ELSE /\ pendingImports' =
                    MapSet(pendingImports, pendingKey,
                           [token |-> token, sourceBlockId |-> token.block,
                            sourceLine |-> token.line])
             /\ postedMessages' =
                    Append(postedMessages,
                           [command |-> "importRequest",
                            name |-> name,
                            kind |-> IF importType = "function"
                                     THEN "function" ELSE "struct",
                            sourceBlockId |-> token.block,
                            sourceLine |-> token.line])

\* First entry of pendingImports, from place k on, whose token's name the
\* requestId includes; 0 if none.
RECURSIVE PendingByRequestId(_, _)
PendingByRequestId(requestId, k) ==
    IF k > Len(pendingImports) THEN 0
    ELSE IF requestId # ""
            /\ Includes(requestId, pendingImports[k].value.token.name)
    THEN k
    ELSE PendingByRequestId(requestId, k + 1)

\* First entry of pendingImports, from place k on, whose key includes the
\* name; 0 if none.
RECURSIVE PendingByName(_, _)
PendingByName(name, k) ==
    IF k > Len(pendingImports) THEN 0
    ELSE IF Includes(pendingImports[k].key, name) THEN k
    ELSE PendingByName(name, k + 1)

\* The search of handleImportResponse for the pending import: the place
\* of the entry in pendingImports, 0 if none.
findPending(response) ==
    LET byId == PendingByRequestId(response.requestId, 1)
    IN  IF byId = 0 /\ response.block # NULL
        THEN PendingByName(BlockName(response.block.id), 1)
        ELSE byId

\* The arrows after handleImportResponse.
handleArrows(response) ==
    IF ~response.success THEN arrows
    ELSE addArrows(arrows, response.arrows)

\* handleImportResponse(response); markTokensAsImported changes the
\* document only.
handleImportResponse(response) ==
    LET place == findPending(response)
    IN  /\ pendingImports' =
               IF place # 0
               THEN MapDelete(pendingImports, pendingImports[place].key)
               ELSE pendingImports
        /\ displayedBlocks' =
               IF response.success /\ response.block # NULL
               THEN displayedBlocks \cup {response.block.id}
               ELSE displayedBlocks
        /\ arrows' = handleArrows(response)

\* removeBlock(block)
removeBlock(blockId) ==
    IF blockId = MainBlock
    THEN UNCHANGED <<arrows, displayedBlocks, postedMessages>>
    ELSE /\ arrows' = removeArrowsForBlock(arrows, blockId)
         /\ displayedBlocks' = displayedBlocks \ {blockId}
         /\ postedMessages' = Append(postedMessages,
                                     [command |-> "blockRemoved",
                                      blockId |-> blockId])

\* The importResponse the extension sends for an importRequest: the
\* definition was found or it was not.  answers is not a field of the
\* message: it records the request that the message answers.
importResponse(request, success) ==
    LET blockId == request.kind \o "-" \o request.name
    IN  [command |-> "importResponse",
         success |-> success,
         requestId |-> request.kind \o "-" \o request.name,
         block |-> IF success THEN CodeBlockRec(blockId, request.kind)
                   ELSE NULL,
         arrows |-> IF success
                    THEN <<ArrowRec(request.sourceBlockId, request.sourceLine,
                                    blockId, request.kind)>>
                    ELSE <<>>,
         answers |-> request]

\* s without its element at place i.
Without(s, i) == SubSeq(s, 1, i - 1) \o SubSeq(s, i + 1, Len(s))

\* The blocks the diagram opens with, and the arrows between them.
InitialBlocks == {{MainBlock}, {MainBlock, "function-get"}}

InitImport ==
    /\ workspaceFiles = <<>>
    /\ functionInfo = NULL
    /\ innerCalls = Idle
    /\ referencedTypes = Idle
    /\ lookups = <<>>
    /\ InitResolver
    /\ InitTraverser
    /\ stateVariableNames = Idle
    /\ displayedBlocks \in InitialBlocks
    /\ pendingImports = <<>>
    /\ arrows = IF "function-get" \in displayedBlocks
                THEN <<ArrowRec(MainBlock, 1, "function-get", "function")>>
                ELSE <<>>
    /\ postedMessages = <<>>
    /\ importResponses = <<>>

\* Cmd/Ctrl-click on an importable token.
RequestImport ==
    /\ UnderWay < MaxPosted
    /\ \E token \in Tokens : requestImport(token)
    /\ UNCHANGED <<displayedBlocks, arrows, importResponses, analysis>>

\* A click on the close button of a block.
RemoveBlock ==
    /\ UnderWay < MaxPosted
    /\ \E blockId \in displayedBlocks : removeBlock(blockId)
    /\ UNCHANGED <<pendingImports, importResponses, analysis>>

\* The extension answers one of the import requests it has received; its
\* handlers are asynchronous and finish in any order.
AnswerImportRequest ==
    /\ \E i \in 1..Len(postedMessages), success \in BOOLEAN :
          /\ postedMessages[i].command = "importRequest"
          /\ importResponses' = Append(importResponses,
                                       importResponse(postedMessages[i], success))
          /\ postedMessages' = Without(postedMessages, i)
    /\ UNCHANGED <<displayedBlocks, pendingImports, arrows, analysis>>

\* The extension takes note of a removed block.
NoteBlockRemoved ==
    /\ \E i \in 1..Len(postedMessages) :
          /\ postedMessages[i].command = "blockRemoved"
          /\ postedMessages' = Without(postedMessages, i)
    /\ UNCHANGED <<displayedBlocks, pendingImports, arrows, importResponses,
                   analysis>>

\* The message listener of the webview receives the next importResponse.
HandleImportResponse ==
    /\ importResponses # <<>>
    /\ handleImportResponse(Head(importResponses))
    /\ importResponses' = Tail(importResponses)
    /\ UNCHANGED <<postedMessages, analysis>>

NextImport ==
    \/ RequestImport
    \/ RemoveBlock
    \/ AnswerImportRequest
    \/ NoteBlockRemoved
    \/ HandleImportResponse

SpecImport == InitImport /\ [][NextImport]_vars

-----------------------------------------------------------------------------
(* Properties of the imports of the webview.                               *)

\* The import requests that were sent and are not yet answered: those the
\* extension has not handled, and those whose response is under way.
Outstanding ==
    SelectSeq(postedMessages, LAMBDA msg : msg.command = "importRequest")
    \o [k \in 1..Len(importResponses) |-> importResponses[k].answers]

\* The block ids under which requestImport looks for the request's target.
TargetIds(request) ==
    {request.kind \o "-" \o request.name, "enum-" \o request.name}

\* An importRequest is posted in this step.
Posts(request) ==
    /\ Len(postedMessages') = Len(postedMessages) + 1
    /\ postedMessages'[Len(postedMessages')] = request
    /\ request.command = "importRequest"

\* C28: at most one import request is outstanding per kind and name, and
\* no import request is posted for a function, struct or enum whose block
\* is on display.
C28_OneOutstandingPerName ==
    /\ [](\A i, j \in 1..Len(Outstanding) :
            /\ Outstanding[i].kind = Outstanding[j].kind
            /\ Outstanding[i].name = Outstanding[j].name
            => i = j)
    /\ [][\A request \in Range(postedMessages') :
             Posts(request) => TargetIds(request) \cap displayedBlocks = {}]_vars

\* The key of pendingImports under which requestImport recorded a request.
PendingKey(request) ==
    (IF request.kind = "function" THEN "function" ELSE "type")
        \o "-" \o request.name

\* C29: handling the response to a request removes the pendingImports
\* entry of that request and leaves every other entry as it is.
C29_ResponseRemovesOwnEntry ==
    [][Len(importResponses') < Len(importResponses)
       => pendingImports' =
              MapDelete(pendingImports,
                        PendingKey(Head(importResponses).answers))]_vars

\* C30: every arrow of the ArrowManager joins two blocks that are on
\* display.
C30_ArrowsJoinDisplayedBlocks ==
    \A k \in 1..Len(arrows) :
        /\ arrows[k].sourceBlockId \in displayedBlocks
        /\ arrows[k].targetBlockId \in displayedBlocks

=============================================================================
